---- MODULE Spec2Model ----
(***************************************************************************)
(* ELISA plate layout: PlateLayout (src/src/layout.py) and the multi-plate *)
(* overflow loop of main() (src/elisa_design.py).                          *)
(*                                                                         *)
(* A group is a record [members |-> <<id, ...>>, reps |-> n], the tuple    *)
(* (sub_samples, sub_reps) of the source.  Sample ids are naturals; the    *)
(* ids of one input queue are pairwise distinct (the caller names them).   *)
(* Python indices are 0-based: slot_idx and the place counts keep their    *)
(* source values and sequences are read at index + 1.                      *)
(***************************************************************************)
EXTENDS Integers, Sequences, FiniteSets, TLC

VARIABLES
    grouped_samples_with_reps, \* main: the queue returned by get_user_config
    current_samples,           \* main: the queue handed to the next plate
    plate_counter,             \* main: number of the plate being generated
    standard_concentrations,   \* PlateLayout.standard_concentrations
    layout_grid,               \* PlateLayout.layout_grid: <<row, col>> -> value
    type_grid,                 \* PlateLayout.type_grid:   <<row, col>> -> type
    start_col,                 \* assign_samples: parameter start_col
    queue,                     \* assign_samples: local queue (the copy)
    slot_idx,                  \* assign_samples: cursor into valid_slots
    final_assignments,         \* assign_samples: list of <<s_id, row, col>>
    leftovers,                 \* value returned by assign_samples
    files,                     \* plate_layout_p<n>.csv, one per plate saved
    raised,                    \* exception that left the operation, or "none"
    pc,                        \* position of the program
    designer,                  \* designer_core: arguments and results of a call
    analysis                   \* elisa_core: arguments and results of a call

\* the variables of PlateLayout and main(), and those of the other modules
main_vars == <<grouped_samples_with_reps, current_samples, plate_counter,
               standard_concentrations, layout_grid, type_grid, start_col, queue,
               slot_idx, final_assignments, leftovers, files, raised, pc>>
tool_vars == <<designer, analysis>>

vars == <<main_vars, tool_vars>>

\* no call of designer_core or elisa_core is in progress
NoCall == [fn |-> "none"]
ToolsIdle == designer = NoCall /\ analysis = NoCall

----------------------------------------------------------------------------
(* Bounds of the model *)

MaxGroups == 2
MaxPlates == 2
MaxStdLen == 9

\* member counts tried for a group: none (zero timepoints entered), one, and
\* counts that need part of a row, more than a row and more than half a plate
MemberChoices == {0, 1, 3, 5}

\* replicate counts tried for a group: below, at and above the 11 slots of a row
RepChoices == {1, 3, 11, 12}

\* concentrations (in tenths) tried in a caller-supplied standards list
ConcChoices == {0, 64}

----------------------------------------------------------------------------
(* Grid model: PlateLayout.__init__ and _initialize_standards *)

rows == <<"A", "B", "C", "D", "E", "F", "G", "H">>
cols == <<1, 2, 3, 4, 5, 6, 7, 8, 9, 10, 11, 12>>


\* A DataFrame is the function from its wells that are not NaN to their
\* values; a well outside its domain holds NaN.

\* cell values of layout_grid: f"STD_{conc}" (conc in tenths) or a sample id
StdValue(conc) == <<"STD", conc>>
SampleValue(s_id) == <<"id", s_id>>

\* pd.DataFrame(index=self.rows, columns=self.cols): every cell NaN
EmptyGrid == <<>>

\* pd.notna(grid.at[r, c])
NotNa(grid, r, c) == <<r, c>> \in DOMAIN grid

\* grid.at[r, c] = v
SetAt(grid, r, c, v) == (<<r, c>> :> v) @@ grid

\* the default argument of __init__, and the list main() passes: 0 .. 6.4
DefaultStandards == <<0, 1, 2, 4, 8, 16, 32, 64>>

\* variant: the list is taken in the order given
NotReversed(xs) == xs

\* list(reversed(xs))
Reversed(xs) == [i \in 1..Len(xs) |-> xs[Len(xs) + 1 - i]]

\* the number of standards _initialize_standards accepts
NumStandards == 8

\* the loop of _initialize_standards over enumerate(self.rows), from index i on
RECURSIVE StandardsLoop(_, _, _)
StandardsLoop(grid, vals, i) ==
    IF i > Len(rows) THEN grid
    ELSE StandardsLoop(SetAt(grid, rows[i], 1, vals[i]), vals, i + 1)

\* layout_grid after _initialize_standards; untouched unless the list has 8 entries
InitializeStandardsLayout(grid, stds) ==
    IF Len(stds) # NumStandards THEN grid
    ELSE StandardsLoop(grid, [i \in 1..Len(stds) |-> StdValue(Reversed(stds)[i])], 1)

\* type_grid after _initialize_standards
InitializeStandardsTypes(grid, stds) ==
    IF Len(stds) # NumStandards THEN grid
    ELSE StandardsLoop(grid, [i \in 1..Len(stds) |-> "Standard"], 1)

\* PlateLayout(standard_concentrations=stds): empty grids, then the standards
\* when the list is non-empty
NewLayoutGrid(stds) ==
    IF stds # <<>> THEN InitializeStandardsLayout(EmptyGrid, stds)
    ELSE EmptyGrid

NewTypeGrid(stds) ==
    IF stds # <<>> THEN InitializeStandardsTypes(EmptyGrid, stds)
    ELSE EmptyGrid

----------------------------------------------------------------------------
(* Scheduler: PlateLayout.assign_samples *)

\* variant: the slots are listed column by column
SlotSequenceByColumn(sc) ==
    [n \in 1..(Len(rows) * (IF sc > 12 THEN 0 ELSE 13 - sc)) |->
        <<rows[((n - 1) % Len(rows)) + 1], sc + ((n - 1) \div Len(rows))>>]

\* valid_slots for start column sc: the rows A..H in order and, in each row,
\* the columns range(sc, 13) in order
RowSlots(sc) == IF sc > 12 THEN 0 ELSE 13 - sc

SlotSequence(sc) ==
    [n \in 1..(Len(rows) * RowSlots(sc)) |->
        <<rows[((n - 1) \div RowSlots(sc)) + 1], sc + ((n - 1) % RowSlots(sc))>>]

\* the slot sequences of the start columns 1..13, computed once
SlotTable == [sc \in 1..13 |-> SlotSequence(sc)]

ValidSlots(sc) == SlotTable[sc]

valid_slots == ValidSlots(start_col)
total_slots == Len(valid_slots)

\* variant: every slot to the end of the plate counts as the current row
SlotsToEnd(slots, idx) == Len(slots) - idx

\* slots_in_row: the slots from index idx on that lie in the row of slot idx
RECURSIVE CountSameRow(_, _, _)
CountSameRow(slots, k, curr_r) ==
    IF k < Len(slots) /\ slots[k + 1][1] = curr_r
    THEN 1 + CountSameRow(slots, k + 1, curr_r)
    ELSE 0

SlotsInRow(slots, idx) == CountSameRow(slots, idx, slots[idx + 1][1])

\* best_candidate_idx: 0-based index of the first group that fits, or -1
RECURSIVE FirstFit(_, _, _)
FirstFit(q, i, slots_in_row) ==
    IF i >= Len(q) THEN -1
    ELSE IF q[i + 1].reps <= slots_in_row THEN i
    ELSE FirstFit(q, i + 1, slots_in_row)

\* variant: a group is taken only when all its members fit the row
RECURSIVE FirstFitWhole(_, _, _)
FirstFitWhole(q, i, slots_in_row) ==
    IF i >= Len(q) THEN -1
    ELSE IF q[i + 1].reps * Len(q[i + 1].members) <= slots_in_row THEN i
    ELSE FirstFitWhole(q, i + 1, slots_in_row)
BestCandidateWhole(q, slots_in_row) == FirstFitWhole(q, 0, slots_in_row)

\* variant: the last group of the queue that fits is taken
RECURSIVE LastFit(_, _, _)
LastFit(q, i, slots_in_row) ==
    IF i < 0 THEN -1
    ELSE IF q[i + 1].reps <= slots_in_row THEN i
    ELSE LastFit(q, i - 1, slots_in_row)
BestCandidateLast(q, slots_in_row) == LastFit(q, Len(q) - 1, slots_in_row)

BestCandidateIdx(q, slots_in_row) == FirstFit(q, 0, slots_in_row)

\* Python's floor division a // b for b # 0
FloorDiv(a, b) == IF b > 0 THEN a \div b ELSE (0 - a) \div (0 - b)

Min(a, b) == IF a <= b THEN a ELSE b

\* variant: one member is placed per iteration
TpsToPlaceOne(g, slots_in_row) == Min(Len(g.members), 1)

\* variant: no member is placed
TpsToPlaceNone(g, slots_in_row) == 0

\* tps_to_place = min(len(sub_samples), slots_in_row // sub_reps)
TpsToPlace(g, slots_in_row) == Min(Len(g.members), FloorDiv(slots_in_row, g.reps))

\* queue.pop(i), the list that is left
Pop(q, i) == SubSeq(q, 1, i) \o SubSeq(q, i + 2, Len(q))

\* variant: one replicate fewer is recorded than the cursor advances
MemberAssignmentsShort(slots, idx, s_id, sub_reps) ==
    [k \in 1..(sub_reps - 1) |-> <<s_id, slots[idx + k][1], slots[idx + k][2]>>]

\* the tuples appended for one member: its sub_reps slots from index idx on
MemberAssignments(slots, idx, s_id, sub_reps) ==
    [k \in 1..sub_reps |-> <<s_id, slots[idx + k][1], slots[idx + k][2]>>]

\* variant: every member is written from the same cursor position
RECURSIVE PlaceMembersOverlapping(_, _, _, _, _)
PlaceMembersOverlapping(slots, idx, g, i, n) ==
    IF i >= n THEN <<>>
    ELSE MemberAssignments(slots, idx, g.members[i + 1], g.reps)
         \o PlaceMembersOverlapping(slots, idx, g, i + 1, n)

\* the tuples appended for the first n members of g, the cursor starting at idx
RECURSIVE PlaceMembers(_, _, _, _, _)
PlaceMembers(slots, idx, g, i, n) ==
    IF i >= n THEN <<>>
    ELSE MemberAssignments(slots, idx, g.members[i + 1], g.reps)
         \o PlaceMembers(slots, idx + g.reps, g, i + 1, n)

\* variant: the members that are left are put back in reverse order
RemainingReversed(sub_samples, tps_to_place) ==
    [k \in 1..(Len(sub_samples) - tps_to_place) |->
        sub_samples[Len(sub_samples) + 1 - k]]

\* variant: the slice starts one member too late
RemainingShort(sub_samples, tps_to_place) ==
    SubSeq(sub_samples, tps_to_place + 2, Len(sub_samples))

\* variant: the whole member list is put back, the placed members included
RemainingAll(sub_samples, tps_to_place) == sub_samples

\* start index of the Python slice xs[n:]: a negative n counts from the end
SliceStart(len, n) ==
    IF n >= 0 THEN n
    ELSE IF len + n > 0 THEN len + n ELSE 0

\* sub_samples[tps_to_place:]
Remaining(sub_samples, tps_to_place) ==
    SubSeq(sub_samples, SliceStart(Len(sub_samples), tps_to_place) + 1,
           Len(sub_samples))

\* variant: the unplaced part of a split group goes to the back of the queue
QueueAfterPlaceBack(q, i, n) ==
    IF n < Len(q[i + 1].members)
    THEN Pop(q, i)
         \o <<[members |-> Remaining(q[i + 1].members, n), reps |-> q[i + 1].reps]>>
    ELSE Pop(q, i)

\* variant: the unplaced part of a split group is not put back
QueueAfterPlaceNoRemainder(q, i, n) == Pop(q, i)

\* queue after the candidate at index i was popped and n of its members placed
QueueAfterPlace(q, i, n) ==
    IF n < Len(q[i + 1].members)
    THEN <<[members |-> Remaining(q[i + 1].members, n), reps |-> q[i + 1].reps]>>
         \o Pop(q, i)
    ELSE Pop(q, i)

\* the wells the loop of _render_assignments_linear writes
RenderedWells(assignments) ==
    {<<assignments[k][2], assignments[k][3]>> : k \in 1..Len(assignments)}

\* the index, at or below k, of the last assignment that names well w: the
\* write of the loop that stays
RECURSIVE LastWrite(_, _, _)
LastWrite(assignments, w, k) ==
    IF <<assignments[k][2], assignments[k][3]>> = w THEN k
    ELSE LastWrite(assignments, w, k - 1)

\* _render_assignments_linear on layout_grid
RenderLayout(grid, assignments) ==
    LET written == RenderedWells(assignments)
    IN [w \in DOMAIN grid \cup written |->
          IF w \in written
          THEN SampleValue(assignments[LastWrite(assignments, w, Len(assignments))][1])
          ELSE grid[w]]

\* _render_assignments_linear on type_grid
RenderTypes(grid, assignments) ==
    LET written == RenderedWells(assignments)
    IN [w \in DOMAIN grid \cup written |-> IF w \in written THEN "Sample" ELSE grid[w]]

----------------------------------------------------------------------------
(* to_csv: one record per well whose value is not NaN, rows A..H, cols 1..12 *)

\* the wells in the order of the two loops of to_csv
AllWells ==
    [n \in 1..(Len(rows) * Len(cols)) |->
        <<rows[((n - 1) \div Len(cols)) + 1], cols[((n - 1) % Len(cols)) + 1]>>]

\* a row of the file is <<Row, Col, Type, ID>>
ToCsv(lgrid, tgrid) ==
    LET kept == SelectSeq(AllWells, LAMBDA w : NotNa(lgrid, w[1], w[2]))
    IN [n \in 1..Len(kept) |-> <<kept[n][1], kept[n][2], tgrid[kept[n]], lgrid[kept[n]]>>]

----------------------------------------------------------------------------
(* Input queues *)

\* ids numbered along the flattened queue: group i holds the next shape[i][1] ids
RECURSIVE MakeQueue(_, _, _)
MakeQueue(shape, i, next_id) ==
    IF i > Len(shape) THEN <<>>
    ELSE <<[members |-> [k \in 1..shape[i][1] |-> next_id + k - 1],
            reps |-> shape[i][2]]>>
         \o MakeQueue(shape, i + 1, next_id + shape[i][1])

GroupShapes == MemberChoices \X RepChoices

----------------------------------------------------------------------------
(* main(): the overflow loop *)

Init ==
    /\ \E n \in 0..MaxGroups : \E shape \in [1..n -> GroupShapes] :
          grouped_samples_with_reps = MakeQueue(shape, 1, 1)
    /\ current_samples = grouped_samples_with_reps
    /\ plate_counter = 1
    /\ standard_concentrations = <<>>
    /\ layout_grid = EmptyGrid
    /\ type_grid = EmptyGrid
    /\ start_col = 2
    /\ queue = <<>>
    /\ slot_idx = 0
    /\ final_assignments = <<>>
    /\ leftovers = <<>>
    /\ files = <<>>
    /\ raised = "none"
    /\ pc = "loop"
    /\ ToolsIdle

\* `while current_samples:` is false: "Done! All samples processed."
LoopExit ==
    /\ pc = "loop"
    /\ current_samples = <<>>
    /\ pc' = "done"
    /\ UNCHANGED tool_vars
    /\ UNCHANGED <<grouped_samples_with_reps, current_samples, plate_counter,
                   standard_concentrations, layout_grid, type_grid, start_col,
                   queue, slot_idx, final_assignments, leftovers, files, raised>>

\* variant: the samples are scheduled from column 1 on
GeneratePlateFromFirstColumn ==
    /\ pc = "loop"
    /\ current_samples # <<>>
    /\ standard_concentrations' = DefaultStandards
    /\ layout_grid' = NewLayoutGrid(DefaultStandards)
    /\ type_grid' = NewTypeGrid(DefaultStandards)
    /\ start_col' = 1
    /\ queue' = current_samples
    /\ slot_idx' = 0
    /\ final_assignments' = <<>>
    /\ leftovers' = <<>>
    /\ pc' = "assign"
    /\ UNCHANGED tool_vars
    /\ UNCHANGED <<grouped_samples_with_reps, current_samples, plate_counter,
                   files, raised>>

\* a fresh PlateLayout with the eight standards, and the entry into
\* assign_samples(current_samples, start_col=2) up to its while loop
GeneratePlate ==
    /\ pc = "loop"
    /\ current_samples # <<>>
    /\ standard_concentrations' = DefaultStandards
    /\ layout_grid' = NewLayoutGrid(DefaultStandards)
    /\ type_grid' = NewTypeGrid(DefaultStandards)
    /\ start_col' = 2
    /\ queue' = current_samples
    /\ slot_idx' = 0
    /\ final_assignments' = <<>>
    /\ leftovers' = <<>>
    /\ pc' = "assign"
    /\ UNCHANGED tool_vars
    /\ UNCHANGED <<grouped_samples_with_reps, current_samples, plate_counter,
                   files, raised>>

\* variant: the cursor moves on by one slot when no queued group fits
SkipSlot ==
    /\ pc = "assign"
    /\ slot_idx < total_slots
    /\ queue # <<>>
    /\ LET slots_in_row == SlotsInRow(valid_slots, slot_idx)
       IN /\ BestCandidateIdx(queue, slots_in_row) = -1
          /\ slot_idx' = slot_idx + 1
    /\ UNCHANGED tool_vars
    /\ UNCHANGED <<grouped_samples_with_reps, current_samples, plate_counter,
                   standard_concentrations, layout_grid, type_grid, start_col,
                   queue, final_assignments, leftovers, files, raised, pc>>

\* one iteration of the while loop in which no queued group fits the row
SkipRow ==
    /\ pc = "assign"
    /\ slot_idx < total_slots
    /\ queue # <<>>
    /\ LET slots_in_row == SlotsInRow(valid_slots, slot_idx)
       IN /\ BestCandidateIdx(queue, slots_in_row) = -1
          /\ slot_idx' = slot_idx + slots_in_row
    /\ UNCHANGED tool_vars
    /\ UNCHANGED <<grouped_samples_with_reps, current_samples, plate_counter,
                   standard_concentrations, layout_grid, type_grid, start_col,
                   queue, final_assignments, leftovers, files, raised, pc>>

\* variant: the queue is the caller's list itself, not a copy of it
PlaceCandidateAliased ==
    /\ pc = "assign"
    /\ slot_idx < total_slots
    /\ queue # <<>>
    /\ LET slots_in_row == SlotsInRow(valid_slots, slot_idx)
           best_candidate_idx == BestCandidateIdx(queue, slots_in_row)
       IN /\ best_candidate_idx # -1
          /\ queue[best_candidate_idx + 1].reps # 0
          /\ LET g == queue[best_candidate_idx + 1]
                 tps_to_place == TpsToPlace(g, slots_in_row)
             IN /\ final_assignments' = final_assignments
                        \o PlaceMembers(valid_slots, slot_idx, g, 0, tps_to_place)
                /\ slot_idx' = slot_idx
                        + (IF tps_to_place > 0 THEN tps_to_place * g.reps ELSE 0)
                /\ queue' = QueueAfterPlace(queue, best_candidate_idx, tps_to_place)
    /\ current_samples' = queue'
    /\ UNCHANGED tool_vars
    /\ UNCHANGED <<grouped_samples_with_reps, plate_counter,
                   standard_concentrations, layout_grid, type_grid, start_col,
                   leftovers, files, raised, pc>>

\* one iteration of the while loop in which the first fitting group is placed
PlaceCandidate ==
    /\ pc = "assign"
    /\ slot_idx < total_slots
    /\ queue # <<>>
    /\ LET slots_in_row == SlotsInRow(valid_slots, slot_idx)
           best_candidate_idx == BestCandidateIdx(queue, slots_in_row)
       IN /\ best_candidate_idx # -1
          /\ queue[best_candidate_idx + 1].reps # 0
          /\ LET g == queue[best_candidate_idx + 1]
                 tps_to_place == TpsToPlace(g, slots_in_row)
             IN /\ final_assignments' = final_assignments
                        \o PlaceMembers(valid_slots, slot_idx, g, 0, tps_to_place)
                /\ slot_idx' = slot_idx
                        + (IF tps_to_place > 0 THEN tps_to_place * g.reps ELSE 0)
                /\ queue' = QueueAfterPlace(queue, best_candidate_idx, tps_to_place)
    /\ UNCHANGED tool_vars
    /\ UNCHANGED <<grouped_samples_with_reps, current_samples, plate_counter,
                   standard_concentrations, layout_grid, type_grid, start_col,
                   leftovers, files, raised, pc>>

\* variant: groups that fit no row are dropped from what is returned
ReturnOnlyPlaceable ==
    /\ pc = "assign"
    /\ slot_idx >= total_slots \/ queue = <<>>
    /\ leftovers' = SelectSeq(queue, LAMBDA g : g.reps <= Len(cols) - start_col + 1)
    /\ layout_grid' = RenderLayout(layout_grid, final_assignments)
    /\ type_grid' = RenderTypes(type_grid, final_assignments)
    /\ pc' = "save"
    /\ UNCHANGED tool_vars
    /\ UNCHANGED <<grouped_samples_with_reps, current_samples, plate_counter,
                   standard_concentrations, start_col, queue, slot_idx,
                   final_assignments, files, raised>>

\* variant: the loop also ends as soon as no queued group fits the row
ReturnWhenNothingFits ==
    /\ pc = "assign"
    /\ \/ slot_idx >= total_slots
       \/ queue = <<>>
       \/ BestCandidateIdx(queue, SlotsInRow(valid_slots, slot_idx)) = -1
    /\ leftovers' = queue
    /\ layout_grid' = RenderLayout(layout_grid, final_assignments)
    /\ type_grid' = RenderTypes(type_grid, final_assignments)
    /\ pc' = "save"
    /\ UNCHANGED tool_vars
    /\ UNCHANGED <<grouped_samples_with_reps, current_samples, plate_counter,
                   standard_concentrations, start_col, queue, slot_idx,
                   final_assignments, files, raised>>

\* the while loop ends (cursor past the last slot, or queue empty): the
\* assignments are rendered into the grids and the queue is returned
ReturnLeftovers ==
    /\ pc = "assign"
    /\ slot_idx >= total_slots \/ queue = <<>>
    /\ leftovers' = queue
    /\ layout_grid' = RenderLayout(layout_grid, final_assignments)
    /\ type_grid' = RenderTypes(type_grid, final_assignments)
    /\ pc' = "save"
    /\ UNCHANGED tool_vars
    /\ UNCHANGED <<grouped_samples_with_reps, current_samples, plate_counter,
                   standard_concentrations, start_col, queue, slot_idx,
                   final_assignments, files, raised>>

\* the plate is saved and nothing is left over: break
SaveLastPlate ==
    /\ pc = "save"
    /\ leftovers = <<>>
    /\ files' = Append(files, ToCsv(layout_grid, type_grid))
    /\ pc' = "done"
    /\ UNCHANGED tool_vars
    /\ UNCHANGED <<grouped_samples_with_reps, current_samples, plate_counter,
                   standard_concentrations, layout_grid, type_grid, start_col,
                   queue, slot_idx, final_assignments, leftovers, raised>>

\* the plate is saved and groups are left over: "Overflow detected", next plate
SaveAndOverflow ==
    /\ pc = "save"
    /\ leftovers # <<>>
    /\ plate_counter < MaxPlates
    /\ files' = Append(files, ToCsv(layout_grid, type_grid))
    /\ current_samples' = leftovers
    /\ plate_counter' = plate_counter + 1
    /\ pc' = "loop"
    /\ UNCHANGED tool_vars
    /\ UNCHANGED <<grouped_samples_with_reps, standard_concentrations,
                   layout_grid, type_grid, start_col, queue, slot_idx,
                   final_assignments, leftovers, raised>>

Next ==
    \/ LoopExit
    \/ GeneratePlate
    \/ SkipRow
    \/ PlaceCandidate
    \/ ReturnLeftovers
    \/ SaveLastPlate
    \/ SaveAndOverflow

Spec == Init /\ [][Next]_vars

----------------------------------------------------------------------------
(* Construction of one PlateLayout from an arbitrary standards list *)

\* the lists passed as standard_concentrations: the default and every list of
\* up to MaxStdLen concentrations
BuildInit ==
    /\ standard_concentrations \in
          {DefaultStandards} \cup UNION {[1..n -> ConcChoices] : n \in 0..MaxStdLen}
    /\ grouped_samples_with_reps = <<>>
    /\ current_samples = <<>>
    /\ plate_counter = 1
    /\ layout_grid = EmptyGrid
    /\ type_grid = EmptyGrid
    /\ start_col = 2
    /\ queue = <<>>
    /\ slot_idx = 0
    /\ final_assignments = <<>>
    /\ leftovers = <<>>
    /\ files = <<>>
    /\ raised = "none"
    /\ pc = "new"
    /\ ToolsIdle

\* PlateLayout(standard_concentrations): __init__ returns normally
BuildPlate ==
    /\ pc = "new"
    /\ layout_grid' = NewLayoutGrid(standard_concentrations)
    /\ type_grid' = NewTypeGrid(standard_concentrations)
    /\ pc' = "built"
    /\ UNCHANGED tool_vars
    /\ UNCHANGED <<grouped_samples_with_reps, current_samples, plate_counter,
                   standard_concentrations, start_col, queue, slot_idx,
                   final_assignments, leftovers, files, raised>>

BuildNext == BuildPlate

SpecBuild == BuildInit /\ [][BuildNext]_vars

----------------------------------------------------------------------------
(* main() on the queue get_user_config returns for any integers entered *)

\* replicate counts entered at the prompt: int(input(...)) takes any integer
AnyRepChoices == {-1, 0, 1, 12}

\* get_user_config has returned: every entered replicate count is in the queue
ConfigInit ==
    /\ \E n \in 0..MaxGroups : \E shape \in [1..n -> MemberChoices \X AnyRepChoices] :
          grouped_samples_with_reps = MakeQueue(shape, 1, 1)
    /\ current_samples = grouped_samples_with_reps
    /\ plate_counter = 1
    /\ standard_concentrations = <<>>
    /\ layout_grid = EmptyGrid
    /\ type_grid = EmptyGrid
    /\ start_col = 2
    /\ queue = <<>>
    /\ slot_idx = 0
    /\ final_assignments = <<>>
    /\ leftovers = <<>>
    /\ files = <<>>
    /\ raised = "none"
    /\ pc = "loop"
    /\ ToolsIdle

\* the selected group has replicate count 0: it is popped and
\* slots_in_row // sub_reps raises ZeroDivisionError, which ends main()
RaiseZeroDivision ==
    /\ pc = "assign"
    /\ slot_idx < total_slots
    /\ queue # <<>>
    /\ LET best_candidate_idx == BestCandidateIdx(queue, SlotsInRow(valid_slots, slot_idx))
       IN /\ best_candidate_idx # -1
          /\ queue[best_candidate_idx + 1].reps = 0
          /\ queue' = Pop(queue, best_candidate_idx)
    /\ raised' = "ZeroDivisionError"
    /\ pc' = "crashed"
    /\ UNCHANGED tool_vars
    /\ UNCHANGED <<grouped_samples_with_reps, current_samples, plate_counter,
                   standard_concentrations, layout_grid, type_grid, start_col,
                   slot_idx, final_assignments, leftovers, files>>

ConfigNext == Next \/ RaiseZeroDivision

SpecConfig == ConfigInit /\ [][ConfigNext]_vars

----------------------------------------------------------------------------
(* main() on the queues of run_debug's kind: every group has the same number
   of timepoints and the same replicate count *)

\* "Exp A: 9 subjects (3 TPs, 2 Reps)": up to 9 subjects, up to 3 timepoints,
\* up to 3 replicates
ScenarioGroups == 9
ScenarioMemberChoices == {1, 2, 3}
ScenarioRepChoices == {1, 2, 3}

UniformQueue(n, m, r) == MakeQueue([i \in 1..n |-> <<m, r>>], 1, 1)

ScenarioInit ==
    /\ \E n \in 0..ScenarioGroups : \E m \in ScenarioMemberChoices :
          \E r \in ScenarioRepChoices :
              grouped_samples_with_reps = UniformQueue(n, m, r)
    /\ current_samples = grouped_samples_with_reps
    /\ plate_counter = 1
    /\ standard_concentrations = <<>>
    /\ layout_grid = EmptyGrid
    /\ type_grid = EmptyGrid
    /\ start_col = 2
    /\ queue = <<>>
    /\ slot_idx = 0
    /\ final_assignments = <<>>
    /\ leftovers = <<>>
    /\ files = <<>>
    /\ raised = "none"
    /\ pc = "loop"
    /\ ToolsIdle

SpecScenario == ScenarioInit /\ [][Next]_vars

----------------------------------------------------------------------------
(* One call of assign_samples on the first plate, each step taken in turn *)

RunNext == GeneratePlate \/ SkipRow \/ PlaceCandidate \/ ReturnLeftovers

FairRunSpec == Init /\ [][RunNext]_vars /\ WF_vars(RunNext)

----------------------------------------------------------------------------
(* assign_samples(groups, start_col) called on a fresh plate with any start
   column *)

StartCols == 1..13

\* layout = PlateLayout(); layout.assign_samples(groups, start_col=sc), up
\* to the while loop
SlotsInit ==
    /\ \E n \in 0..1 : \E shape \in [1..n -> GroupShapes] :
          grouped_samples_with_reps = MakeQueue(shape, 1, 1)
    /\ current_samples = grouped_samples_with_reps
    /\ plate_counter = 1
    /\ standard_concentrations = DefaultStandards
    /\ layout_grid = NewLayoutGrid(DefaultStandards)
    /\ type_grid = NewTypeGrid(DefaultStandards)
    /\ start_col \in StartCols
    /\ queue = current_samples
    /\ slot_idx = 0
    /\ final_assignments = <<>>
    /\ leftovers = <<>>
    /\ files = <<>>
    /\ raised = "none"
    /\ pc = "assign"
    /\ ToolsIdle

SlotsNext == SkipRow \/ PlaceCandidate \/ ReturnLeftovers

SpecSlots == SlotsInit /\ [][SlotsNext]_vars

----------------------------------------------------------------------------
(* designer_core: the designer grid and its table form *)

\* A Python str is the sequence of its characters; '' is the empty sequence.
DigitChars == <<"0", "1", "2", "3", "4", "5", "6", "7", "8", "9">>
UpperChars == <<"A", "B", "C", "D", "E", "F", "G", "H", "I", "J", "K", "L", "M",
                "N", "O", "P", "Q", "R", "S", "T", "U", "V", "W", "X", "Y", "Z">>
LowerChars == <<"a", "b", "c", "d", "e", "f", "g", "h", "i", "j", "k", "l", "m",
                "n", "o", "p", "q", "r", "s", "t", "u", "v", "w", "x", "y", "z">>

\* str(n) for an integer n
RECURSIVE NatStr(_)
NatStr(n) ==
    IF n < 10 THEN <<DigitChars[n + 1]>>
    ELSE NatStr(n \div 10) \o <<DigitChars[(n % 10) + 1]>>
IntStr(n) == IF n < 0 THEN <<"-">> \o NatStr(0 - n) ELSE NatStr(n)

\* int(s) for a str s: [ok |-> FALSE] stands for ValueError
IsDigit(ch) == \E d \in 1..10 : DigitChars[d] = ch
DigitVal(ch) == (CHOOSE d \in 1..10 : DigitChars[d] = ch) - 1
RECURSIVE DigitsVal(_, _)
DigitsVal(s, acc) ==
    IF s = <<>> THEN acc ELSE DigitsVal(Tail(s), 10 * acc + DigitVal(Head(s)))
AllDigits(s) == s # <<>> /\ \A i \in 1..Len(s) : IsDigit(s[i])
ParseInt(s) ==
    IF AllDigits(s) THEN [ok |-> TRUE, val |-> DigitsVal(s, 0)]
    ELSE IF s # <<>> /\ s[1] \in {"-", "+"} /\ AllDigits(Tail(s))
         THEN [ok |-> TRUE,
               val |-> IF s[1] = "-" THEN 0 - DigitsVal(Tail(s), 0)
                       ELSE DigitsVal(Tail(s), 0)]
    ELSE [ok |-> FALSE, val |-> 0]

\* s.lower()
LowerChar(ch) ==
    IF \E i \in 1..26 : UpperChars[i] = ch
    THEN LowerChars[CHOOSE i \in 1..26 : UpperChars[i] = ch]
    ELSE ch
Lower(s) == [i \in 1..Len(s) |-> LowerChar(s[i])]

COLS == 8
ROWS == 12
\* [chr(i) for i in range(ord('A') + COLS - 1, ord('A') - 1, -1)]
COL_LABELS == [i \in 1..COLS |-> <<UpperChars[COLS + 1 - i]>>]
\* [str(i + 1) for i in range(ROWS)]
ROW_LABELS == [i \in 1..ROWS |-> IntStr(i)]

\* A value of the table is a number or a str.
Num(n) == [num |-> TRUE, val |-> n]
Str(s) == [num |-> FALSE, val |-> s]

\* the row of the table for grid position (c, r); a grid is a function from
\* the positions that hold a cell to the cells
ExportRow(grid_data, subject_names_dict, c, r) ==
    LET well_id == COL_LABELS[c + 1] \o ROW_LABELS[r + 1]
    IN IF <<c, r>> \in DOMAIN grid_data
       THEN LET cell == grid_data[<<c, r>>]
            IN IF cell.type = "CAL"
               THEN [Well |-> well_id, Type |-> "Calibration",
                     Concentration |-> Num(cell.conc),
                     Experiment |-> Str(<<>>), Subject |-> Str(<<>>),
                     Timepoint |-> <<>>, Replicate |-> Str(<<>>),
                     SubjectName |-> <<>>]
               ELSE [Well |-> well_id, Type |-> "Experiment",
                     Concentration |-> Str(<<>>),
                     Experiment |-> Num(cell.exp), Subject |-> Num(cell.subj),
                     Timepoint |-> <<"t">> \o IntStr(cell.samp),
                     Replicate |-> Num(cell.rep),
                     SubjectName |->
                         IF <<cell.exp, cell.subj>> \in DOMAIN subject_names_dict
                         THEN subject_names_dict[<<cell.exp, cell.subj>>]
                         ELSE <<>>]
       ELSE [Well |-> well_id, Type |-> "Empty",
             Concentration |-> Str(<<>>), Experiment |-> Str(<<>>),
             Subject |-> Str(<<>>), Timepoint |-> <<>>, Replicate |-> Str(<<>>),
             SubjectName |-> <<>>]

\* grid_to_dataframe: one row per position, r outer and c inner
grid_to_dataframe(grid_data, subject_names_dict) ==
    [n \in 1..(ROWS * COLS) |->
        ExportRow(grid_data, subject_names_dict, (n - 1) % COLS, (n - 1) \div COLS)]

\* int(v) and float(v) for a value of the table; of a str only the plain
\* decimal numerals are read, every other str is a ValueError
PyInt(v) == IF v.num THEN [ok |-> TRUE, val |-> v.val] ELSE ParseInt(v.val)
PyFloat(v) == IF v.num THEN [ok |-> TRUE, val |-> v.val] ELSE ParseInt(v.val)

\* the name read from the 'Subject Name' column: 'nan' in any case is no name
ImportName(s) == IF Lower(s) = <<"n", "a", "n">> THEN <<>> ELSE s

\* the Timepoint column: 't<n>' in either case, or a bare numeral
ImportTimepoint(tp_str) ==
    IF tp_str # <<>> /\ LowerChar(tp_str[1]) = "t"
    THEN ParseInt(Tail(tp_str))
    ELSE ParseInt(tp_str)

NoCell == [type |-> "NONE"]
Skipped == [ok |-> FALSE, pos |-> <<0, 0>>, cell |-> NoCell, name |-> <<>>]

\* one pass of the loop over the rows: the position and the cell the row
\* writes, or Skipped for a row that 'continue's or is of another type
ImportRow(row) ==
    LET well == row.Well
    IN IF Len(well) < 2 THEN Skipped
       ELSE IF ~ \E i \in 1..COLS : COL_LABELS[i] = <<well[1]>> THEN Skipped
       ELSE LET c == (CHOOSE i \in 1..COLS : COL_LABELS[i] = <<well[1]>>) - 1
                rp == ParseInt(Tail(well))
                r == rp.val - 1
            IN IF ~ rp.ok THEN Skipped
               ELSE IF ~ (0 <= c /\ c < COLS /\ 0 <= r /\ r < ROWS) THEN Skipped
               ELSE IF row.Type = "Calibration"
                    THEN LET conc == PyFloat(row.Concentration)
                         IN [ok |-> TRUE, pos |-> <<c, r>>,
                             cell |-> [type |-> "CAL",
                                       conc |-> IF conc.ok THEN conc.val ELSE 0],
                             name |-> <<>>]
               ELSE IF row.Type = "Experiment"
                    THEN LET exp == PyInt(row.Experiment)
                             subj == PyInt(row.Subject)
                             samp == ImportTimepoint(row.Timepoint)
                             rep == PyInt(row.Replicate)
                         IN IF exp.ok /\ subj.ok /\ samp.ok /\ rep.ok
                            THEN [ok |-> TRUE, pos |-> <<c, r>>,
                                  cell |-> [type |-> "EXP", exp |-> exp.val,
                                            subj |-> subj.val, samp |-> samp.val,
                                            rep |-> rep.val],
                                  name |-> ImportName(row.SubjectName)]
                            ELSE Skipped
               ELSE Skipped

SetMax(S) == CHOOSE x \in S : \A y \in S : y <= x
SetMin(S) == CHOOSE x \in S : \A y \in S : x <= y

\* dataframe_to_grid: a later row overwrites the cell of an earlier one at
\* the same position, the first non-empty name of an (exp, subj) is kept
dataframe_to_grid(df) ==
    LET parsed == [n \in 1..Len(df) |-> ImportRow(df[n])]
        written == {n \in 1..Len(df) : parsed[n].ok}
        exp_rows == {n \in written : parsed[n].cell.type = "EXP"}
        named == {n \in exp_rows : parsed[n].name # <<>>}
        key(n) == <<parsed[n].cell.exp, parsed[n].cell.subj>>
        grid_data ==
            [p \in {parsed[n].pos : n \in written} |->
                parsed[SetMax({n \in written : parsed[n].pos = p})].cell]
        subject_names ==
            [k \in {key(n) : n \in named} |->
                parsed[SetMin({n \in named : key(n) = k})].name]
        max_exp == SetMax({0} \cup {parsed[n].cell.exp : n \in exp_rows})
        current_exp == IF max_exp > 1 THEN max_exp ELSE 1
        exp_cells == {p \in DOMAIN grid_data : grid_data[p].type = "EXP"}
        max_subj == SetMax({0} \cup {grid_data[p].subj :
                                p \in {q \in exp_cells :
                                          grid_data[q].exp = current_exp}})
        current_subj == IF max_subj > 0 THEN max_subj ELSE 1
        subj_cells == {p \in exp_cells : /\ grid_data[p].exp = current_exp
                                          /\ grid_data[p].subj = current_subj}
        max_samp == SetMax({0} \cup {grid_data[p].samp : p \in subj_cells})
    IN [grid_data |-> grid_data,
        subject_names |-> subject_names,
        state |-> [current_exp |-> current_exp,
                   current_subj |-> current_subj,
                   next_sample_id |-> IF subj_cells # {} THEN max_samp + 1 ELSE 0]]

\* the variant of fill_cells that takes the corners as given
FillCellsAsGiven(c1, r1, c2, r2, current_exp, current_subj, next_sample_id, orientation) ==
    LET width == IF c2 >= c1 THEN c2 - c1 + 1 ELSE 0
        height == IF r2 >= r1 THEN r2 - r1 + 1 ELSE 0
    IN [updates |->
            [p \in (c1..c2) \X (r1..r2) |->
                [type |-> "EXP", exp |-> current_exp, subj |-> current_subj,
                 samp |-> IF orientation = "vertical"
                          THEN next_sample_id + (p[1] - c1)
                          ELSE next_sample_id + (p[2] - r1),
                 rep |-> IF orientation = "vertical"
                         THEN p[2] - r1 + 1 ELSE p[1] - c1 + 1]],
        local_samp_id |-> next_sample_id +
                          (IF orientation = "vertical" THEN width ELSE height)]

\* fill_cells: the corners are ordered, then every column ('vertical') or
\* every row (any other orientation) of the rectangle takes the next sample
\* id and numbers its cells 1, 2, ...
fill_cells(c1, r1, c2, r2, current_exp, current_subj, next_sample_id, orientation) ==
    LET cl == Min(c1, c2)
        ch == IF c1 >= c2 THEN c1 ELSE c2
        rl == Min(r1, r2)
        rh == IF r1 >= r2 THEN r1 ELSE r2
    IN [updates |->
            [p \in (cl..ch) \X (rl..rh) |->
                [type |-> "EXP", exp |-> current_exp, subj |-> current_subj,
                 samp |-> IF orientation = "vertical"
                          THEN next_sample_id + (p[1] - cl)
                          ELSE next_sample_id + (p[2] - rl),
                 rep |-> IF orientation = "vertical"
                         THEN p[2] - rl + 1 ELSE p[1] - cl + 1]],
        local_samp_id |-> next_sample_id +
                          (IF orientation = "vertical"
                           THEN ch - cl + 1 ELSE rh - rl + 1)]

\* The designer's inputs: the grids with a cell at some of CellPositions, the
\* name maps over the (exp, subj) pairs of those cells, and the rectangles
\* with corners in CornerCols x CornerRows.
CellPositions == {<<0, 0>>, <<7, 11>>}
CalCells == {[type |-> "CAL", conc |-> x] : x \in {0, 100}}
ExpCells ==
    {[type |-> "EXP", exp |-> e, subj |-> 1, samp |-> t, rep |-> k] :
        e \in {1, 2}, t \in {0, 12}, k \in {1, 2}}
Grids ==
    UNION {[S -> CalCells \cup ExpCells] : S \in SUBSET CellPositions}
NameChoices == {<<>>, <<"A", "l">>, <<"N", "a", "n">>}
NameMaps ==
    UNION {[K -> NameChoices] : K \in SUBSET {<<1, 1>>, <<2, 1>>}}
CornerCols == {0, 1, 7}
CornerRows == {0, 2, 11}
Orientations == {"vertical", "horizontal", ""}
SampleIdChoices == {0, 5}

\* main() is not running while the designer is used
MainIdle ==
    /\ grouped_samples_with_reps = <<>>
    /\ current_samples = <<>>
    /\ plate_counter = 1
    /\ standard_concentrations = <<>>
    /\ layout_grid = EmptyGrid
    /\ type_grid = EmptyGrid
    /\ start_col = 2
    /\ queue = <<>>
    /\ slot_idx = 0
    /\ final_assignments = <<>>
    /\ leftovers = <<>>
    /\ files = <<>>
    /\ raised = "none"
    /\ pc = "off"

\* a call of the export followed by the import, or a call of fill_cells
DesignerInit ==
    /\ MainIdle
    /\ analysis = NoCall
    /\ \/ \E g \in Grids : \E names \in NameMaps :
              designer = [fn |-> "round_trip", pc |-> "call",
                          grid_data |-> g, subject_names_dict |-> names,
                          df |-> <<>>, result |-> NoCall]
       \/ \E c1 \in CornerCols : \E c2 \in CornerCols :
          \E r1 \in CornerRows : \E r2 \in CornerRows :
          \E o \in Orientations : \E n \in SampleIdChoices :
              designer = [fn |-> "fill_cells", pc |-> "call",
                          c1 |-> c1, r1 |-> r1, c2 |-> c2, r2 |-> r2,
                          current_exp |-> 1, current_subj |-> 1,
                          next_sample_id |-> n, orientation |-> o,
                          result |-> NoCall]

\* df = grid_to_dataframe(grid_data, subject_names_dict)
ExportGrid ==
    /\ designer.fn = "round_trip"
    /\ designer.pc = "call"
    /\ designer' = [designer EXCEPT
                       !.pc = "exported",
                       !.df = grid_to_dataframe(designer.grid_data,
                                                designer.subject_names_dict)]
    /\ UNCHANGED <<main_vars, analysis>>

\* new_grid, new_names, state = dataframe_to_grid(df)
ImportGrid ==
    /\ designer.fn = "round_trip"
    /\ designer.pc = "exported"
    /\ designer' = [designer EXCEPT
                       !.pc = "imported",
                       !.result = dataframe_to_grid(designer.df)]
    /\ UNCHANGED <<main_vars, analysis>>

\* updates, next_id = fill_cells(...)
FillCells ==
    /\ designer.fn = "fill_cells"
    /\ designer.pc = "call"
    /\ designer' = [designer EXCEPT
                       !.pc = "returned",
                       !.result = fill_cells(designer.c1, designer.r1,
                                             designer.c2, designer.r2,
                                             designer.current_exp,
                                             designer.current_subj,
                                             designer.next_sample_id,
                                             designer.orientation)]
    /\ UNCHANGED <<main_vars, analysis>>

DesignerNext == ExportGrid \/ ImportGrid \/ FillCells

SpecDesigner == DesignerInit /\ [][DesignerNext]_vars

----------------------------------------------------------------------------
(* elisa_layout_designer: the state of ElisaPlateDesigner and its event
   handlers. designer holds the fields of the object and the selection
   being dragged. *)

MaxHistory == 2

\* CALIBRATION_CONCS by column, in tenths
CALIBRATION_CONCS == <<64, 32, 16, 8, 4, 2, 1, 0>>

\* _init_grid_data: rows 0 and 1 are calibration cells
InitGridData ==
    [p \in (0..(COLS - 1)) \X {0, 1} |->
        [type |-> "CAL", conc |-> CALIBRATION_CONCS[p[1] + 1],
         id_str |-> <<"Cal", CALIBRATION_CONCS[p[1] + 1]>>]]

NoSel == <<>>

\* the cells an event can name (get_cell_coords returned them), and the
\* files an import can read
SelCells == {<<0, 1>>, <<1, 3>>}
ImportFiles ==
    {grid_to_dataframe((<<0, 0>> :> [type |-> "CAL", conc |-> 100]) @@
                       (<<7, 11>> :> [type |-> "EXP", exp |-> 2, subj |-> 1,
                                      samp |-> 12, rep |-> 1]),
                       (<<2, 1>> :> <<"A", "l">>))}

\* what dataframe_to_grid returns for each of the files
ImportedFiles == {dataframe_to_grid(df) : df \in ImportFiles}

\* __init__
GuiInit ==
    /\ MainIdle
    /\ analysis = NoCall
    /\ designer = [fn |-> "gui",
                   grid_data |-> InitGridData, history |-> <<>>,
                   current_exp |-> 1, current_subj |-> 1,
                   next_sample_id |-> 0, subject_closed |-> FALSE,
                   orientation |-> "vertical", subject_names |-> <<>>,
                   start_sel |-> NoSel, cur_sel |-> NoSel]

\* save_state: the record appended to the history
SavedState(d) ==
    [grid |-> d.grid_data, exp |-> d.current_exp, subj |-> d.current_subj,
     samp |-> d.next_sample_id, subj_closed |-> d.subject_closed]

\* refresh_sidebar: every (exp, subj) of the grid without a name gets ''
RefreshSidebar(grid, names) ==
    LET subjs == {<<grid[p].exp, grid[p].subj>> :
                     p \in {q \in DOMAIN grid : grid[q].type = "EXP"}}
    IN [k \in (DOMAIN names) \cup subjs |->
          IF k \in DOMAIN names THEN names[k] ELSE <<>>]

\* variant of apply_selection that fills whatever was selected
ApplyAnySelection(d) ==
    LET subj == IF d.subject_closed THEN d.current_subj + 1 ELSE d.current_subj
        samp == IF d.subject_closed THEN 0 ELSE d.next_sample_id
        filled == fill_cells(d.cur_sel[1], d.cur_sel[2], d.cur_sel[3],
                             d.cur_sel[4], d.current_exp, subj, samp,
                             d.orientation)
    IN [d EXCEPT !.current_subj = subj,
                 !.subject_closed = FALSE,
                 !.grid_data = filled.updates @@ d.grid_data,
                 !.next_sample_id = filled.local_samp_id]

\* apply_selection: a selection whose top row is a calibration row is
\* rejected; otherwise a closed subject is followed by the next one and
\* the cells of fill_cells are written into the grid
ApplySelection(d) ==
    IF d.cur_sel[2] < 2 THEN d
    ELSE LET subj == IF d.subject_closed THEN d.current_subj + 1
                     ELSE d.current_subj
             samp == IF d.subject_closed THEN 0 ELSE d.next_sample_id
             filled == fill_cells(d.cur_sel[1], d.cur_sel[2], d.cur_sel[3],
                                  d.cur_sel[4], d.current_exp, subj, samp,
                                  d.orientation)
         IN [d EXCEPT !.current_subj = subj,
                      !.subject_closed = FALSE,
                      !.grid_data = filled.updates @@ d.grid_data,
                      !.next_sample_id = filled.local_samp_id]

\* on_press on a cell of the grid
OnPress ==
    /\ designer.fn = "gui"
    /\ \E coords \in SelCells :
          designer' = [designer EXCEPT
                          !.start_sel = coords,
                          !.cur_sel = <<coords[1], coords[2], coords[1], coords[2]>>]
    /\ UNCHANGED <<main_vars, analysis>>

\* on_drag over a cell of the grid, the button being down
OnDrag ==
    /\ designer.fn = "gui"
    /\ designer.start_sel # NoSel
    /\ \E coords \in SelCells :
          LET st == designer.start_sel
          IN designer' = [designer EXCEPT
                            !.cur_sel = <<Min(st[1], coords[1]), Min(st[2], coords[2]),
                                          IF st[1] >= coords[1] THEN st[1] ELSE coords[1],
                                          IF st[2] >= coords[2] THEN st[2] ELSE coords[2]>>]
    /\ UNCHANGED <<main_vars, analysis>>

\* on_release with a selection: save_state, apply_selection,
\* refresh_sidebar, and the selection is cleared
OnRelease ==
    /\ designer.fn = "gui"
    /\ designer.cur_sel # NoSel
    /\ Len(designer.history) < MaxHistory
    /\ LET saved == [designer EXCEPT
                        !.history = Append(designer.history, SavedState(designer))]
           applied == ApplySelection(saved)
       IN designer' = [applied EXCEPT
                          !.subject_names = RefreshSidebar(applied.grid_data,
                                                           applied.subject_names),
                          !.cur_sel = NoSel,
                          !.start_sel = NoSel]
    /\ UNCHANGED <<main_vars, analysis>>

\* on_undo: the last saved state is popped and restored, if there is one
OnUndo ==
    /\ designer.fn = "gui"
    /\ IF designer.history # <<>>
       THEN LET state == designer.history[Len(designer.history)]
            IN designer' = [designer EXCEPT
                              !.history = SubSeq(designer.history, 1,
                                                 Len(designer.history) - 1),
                              !.grid_data = state.grid,
                              !.current_exp = state.exp,
                              !.current_subj = state.subj,
                              !.next_sample_id = state.samp,
                              !.subject_closed = state.subj_closed,
                              !.subject_names = RefreshSidebar(state.grid,
                                                    designer.subject_names)]
       ELSE designer' = designer
    /\ UNCHANGED <<main_vars, analysis>>

\* on_space
OnSpace ==
    /\ designer.fn = "gui"
    /\ designer' = [designer EXCEPT !.subject_closed = TRUE]
    /\ UNCHANGED <<main_vars, analysis>>

\* variant of on_e that does not save the state
OnEUnsaved ==
    /\ designer.fn = "gui"
    /\ Len(designer.history) < MaxHistory
    /\ designer' = [designer EXCEPT
                       !.current_exp = designer.current_exp + 1,
                       !.next_sample_id = 0,
                       !.current_subj = 1,
                       !.subject_closed = FALSE]
    /\ UNCHANGED <<main_vars, analysis>>

\* on_e
OnE ==
    /\ designer.fn = "gui"
    /\ Len(designer.history) < MaxHistory
    /\ designer' = [designer EXCEPT
                       !.history = Append(designer.history, SavedState(designer)),
                       !.current_exp = designer.current_exp + 1,
                       !.next_sample_id = 0,
                       !.current_subj = 1,
                       !.subject_closed = FALSE]
    /\ UNCHANGED <<main_vars, analysis>>

\* on_r
OnR ==
    /\ designer.fn = "gui"
    /\ designer' = [designer EXCEPT
                       !.orientation = IF designer.orientation = "vertical"
                                       THEN "horizontal" ELSE "vertical"]
    /\ UNCHANGED <<main_vars, analysis>>

\* import_csv of a file that read_csv can read
ImportCsv ==
    /\ designer.fn = "gui"
    /\ Len(designer.history) < MaxHistory
    /\ \E read \in ImportedFiles :
          designer' = [designer EXCEPT
                            !.history = Append(designer.history, SavedState(designer)),
                            !.grid_data = read.grid_data,
                            !.subject_names = RefreshSidebar(read.grid_data,
                                                             read.subject_names),
                            !.current_exp = read.state.current_exp,
                            !.current_subj = read.state.current_subj,
                            !.next_sample_id = read.state.next_sample_id]
    /\ UNCHANGED <<main_vars, analysis>>

\* the events other than the import
GuiEvents ==
    OnPress \/ OnDrag \/ OnRelease \/ OnUndo \/ OnSpace \/ OnE \/ OnR

GuiNext == GuiEvents \/ ImportCsv

SpecGui == GuiInit /\ [][GuiNext]_vars

SpecGuiNoImport == GuiInit /\ [][GuiEvents]_vars

----------------------------------------------------------------------------
(* elisa_core: run_statistical_analysis *)

\* str(name).strip() == ''
IsBlank(name) == \A i \in 1..Len(name) : name[i] = " "

\* step 1: a blank or 'nan' name becomes f"Subject {int(row['Subject'])}"
CleanName(row) ==
    IF IsBlank(row.SubjectName) \/ Lower(row.SubjectName) = <<"n", "a", "n">>
    THEN <<"S", "u", "b", "j", "e", "c", "t", " ">> \o IntStr(row.Subject)
    ELSE row.SubjectName
CleanRows(exp_df) ==
    [i \in 1..Len(exp_df) |-> [exp_df[i] EXCEPT !.SubjectName = CleanName(exp_df[i])]]

RECURSIVE SumOver(_, _, _)
SumOver(df, I, sq) ==
    IF I = {} THEN 0
    ELSE LET i == CHOOSE j \in I : TRUE
             x == df[i].Calculated_Conc
         IN (IF sq THEN x * x ELSE x) + SumOver(df, I \ {i}, sq)

\* step 2: the groups of groupby(['Subject', 'Subject Name', 'Timepoint'])
GroupKeys(df) ==
    {<<df[i].Subject, df[i].SubjectName, df[i].Timepoint>> : i \in 1..Len(df)}
GroupRows(df, k) ==
    {i \in 1..Len(df) : <<df[i].Subject, df[i].SubjectName, df[i].Timepoint>> = k}

\* CV_Percent > 20 for a group, std being the sample standard deviation:
\* (std / mean) * 100 > 20 with n values of sum s and sum of squares q is
\* 25 * n * (n * q - s * s) > (n - 1) * s * s when the mean is positive
HighCv(df, k) ==
    LET I == GroupRows(df, k)
        n == Cardinality(I)
        sum == SumOver(df, I, FALSE)
        sqs == SumOver(df, I, TRUE)
    IN /\ n > 1
       /\ \/ sum > 0 /\ 25 * n * (n * sqs - sum * sum) > (n - 1) * sum * sum
          \/ sum = 0 /\ sqs > 0

\* step 3: grouped.pivot(index='Subject Name', columns='Timepoint') raises
\* ValueError when two groups have the same name and timepoint
PivotHasDuplicates(keys) ==
    \E k1 \in keys : \E k2 \in keys :
        k1 # k2 /\ k1[2] = k2[2] /\ k1[3] = k2[3]

\* the lengths of the arrays handed to the tests
ArrayLengths(keys, valid_tps, paired) ==
    LET names == {k[2] : k \in keys}
        has(nm, tp) == \E k \in keys : k[2] = nm /\ k[3] = tp
    IN [j \in 1..Len(valid_tps) |->
          IF paired
          THEN Cardinality({nm \in names :
                              \A i \in 1..Len(valid_tps) : has(nm, valid_tps[i])})
          ELSE Cardinality({nm \in names : has(nm, valid_tps[j])})]

\* run_statistical_analysis(exp_df, config): the keys of the returned dict,
\* or the exception it raises
run_statistical_analysis(exp_df, config) ==
    LET df == CleanRows(exp_df)
        keys == GroupKeys(df)
        high_cv == IF \E k \in keys : HighCv(df, k) THEN {"High_CV"} ELSE {}
        columns == {k[3] : k \in keys}
        InColumns(tp) == tp \in columns
        valid_tps == SelectSeq(config.timepoints, InColumns)
        lengths == ArrayLengths(keys, valid_tps, config.paired)
    IN IF PivotHasDuplicates(keys)
       THEN [raised |-> "ValueError", results |-> {}]
       ELSE IF Len(valid_tps) < 2
       THEN [raised |-> "none", results |-> high_cv]
       ELSE IF \E j \in 1..Len(valid_tps) : lengths[j] < 3
       THEN [raised |-> "none", results |-> high_cv]
       ELSE [raised |-> "none",
             results |-> high_cv \cup
                         {"shapiro", "p_levene", "p_value", "test_decision"}]

\* The measurements of the analysis: AnalysisSubjects subjects, each named by
\* one of AnalysisNames and measured as one of MeasureChoices (the replicate
\* values at t0 and at t1).
AnalysisSubjects == {1, 2, 3}
AnalysisNames == {<<>>, <<"C">>, <<"D">>}
MeasureChoices == {<<<<10, 11>>, <<20, 21>>>>, <<<<10, 20>>, <<20, 21>>>>,
                   <<<<10, 11>>, <<>>>>}
TimepointLabels == <<"t0", "t1">>
TimepointSelections == {<<"t0", "t1">>, <<"t0">>}

RECURSIVE RowsOf(_, _, _)
RowsOf(subjects, names, measures) ==
    IF subjects = {} THEN <<>>
    ELSE LET sb == SetMin(subjects)
             at(t) == [i \in 1..Len(measures[sb][t]) |->
                         [Type |-> "Experiment", Subject |-> sb,
                          SubjectName |-> names[sb],
                          Timepoint |-> TimepointLabels[t],
                          Calculated_Conc |-> measures[sb][t][i]]]
         IN at(1) \o at(2) \o RowsOf(subjects \ {sb}, names, measures)

AnalysisInit ==
    /\ MainIdle
    /\ designer = NoCall
    /\ \E names \in [AnalysisSubjects -> AnalysisNames] :
       \E measures \in [AnalysisSubjects -> MeasureChoices] :
       \E tps \in TimepointSelections : \E paired \in BOOLEAN :
          analysis = [fn |-> "run_statistical_analysis", pc |-> "call",
                      exp_df |-> RowsOf(AnalysisSubjects, names, measures),
                      config |-> [timepoints |-> tps, paired |-> paired,
                                  tails |-> "two-sided", posthoc |-> FALSE],
                      raised |-> "none", results |-> {}]

\* results = run_statistical_analysis(exp_df, config)
RunStatisticalAnalysis ==
    /\ analysis.fn = "run_statistical_analysis"
    /\ analysis.pc = "call"
    /\ LET out == run_statistical_analysis(analysis.exp_df, analysis.config)
       IN analysis' = [analysis EXCEPT
                         !.pc = IF out.raised = "none" THEN "returned" ELSE "raised",
                         !.exp_df = CleanRows(analysis.exp_df),
                         !.raised = out.raised,
                         !.results = out.results]
    /\ UNCHANGED <<main_vars, designer>>

AnalysisNext == RunStatisticalAnalysis

SpecAnalysis == AnalysisInit /\ [][AnalysisNext]_vars

----------------------------------------------------------------------------
(* interactive_edit: the manual commands on the plate main() has previewed.
   A command's coordinates are the pair (row letter, column number) the
   command parses; a value passed to set_well is the set of its non-NaN
   values, so NaN is the empty set. *)

\* np.nan, and a value that is not NaN
NaN == {}
Val(v) == {v}

\* grid.at[row_str, col_int] of a well of the plate
At(grid, row_str, col_int) ==
    IF NotNa(grid, row_str, col_int) THEN Val(grid[<<row_str, col_int>>]) ELSE NaN

\* grid.at[row_str, col_int] = value, where value may be NaN
AssignAt(grid, row_str, col_int, value) ==
    IF value = NaN
    THEN [w \in DOMAIN grid \ {<<row_str, col_int>>} |-> grid[w]]
    ELSE SetAt(grid, row_str, col_int, CHOOSE v \in value : TRUE)

\* row_str in self.rows and col_int in self.cols
IsWell(row_str, col_int) ==
    /\ \E i \in 1..Len(rows) : rows[i] = row_str
    /\ \E j \in 1..Len(cols) : cols[j] = col_int

\* set_well: the value returned and the two grids after the call
set_well(lgrid, tgrid, row_str, col_int, value, type_str) ==
    IF IsWell(row_str, col_int)
    THEN [returned |-> TRUE,
          layout_grid |-> AssignAt(lgrid, row_str, col_int, value),
          type_grid |-> AssignAt(tgrid, row_str, col_int, type_str)]
    ELSE [returned |-> FALSE, layout_grid |-> lgrid, type_grid |-> tgrid]

\* clear_well
clear_well(lgrid, tgrid, row_str, col_int) ==
    set_well(lgrid, tgrid, row_str, col_int, NaN, NaN)

\* row letters and column numbers a command names: wells of the standards
\* column and of the first sample column, a letter that is no row and a
\* number that is no column
EditRows == {"A", "B", "Z"}
EditCols == {1, 2, 13}
EditCoords == EditRows \X EditCols

\* names typed in a 'set' command
EditNames == {1, 7}

\* the assignments of the plate that is reviewed: none, one sample, two samples
\* of one replicate each
EditAssignments ==
    {<<>>, <<<<1, "A", 2>>>>, <<<<1, "A", 2>>, <<2, "A", 3>>>>}

\* main() has built plate 1 with the default standards, rendered the
\* assignments, saved the preview and called interactive_edit
EditInit ==
    /\ \E a \in EditAssignments :
          /\ final_assignments = a
          /\ layout_grid = RenderLayout(NewLayoutGrid(DefaultStandards), a)
          /\ type_grid = RenderTypes(NewTypeGrid(DefaultStandards), a)
    /\ files = <<ToCsv(layout_grid, type_grid)>>
    /\ grouped_samples_with_reps = <<>>
    /\ current_samples = <<>>
    /\ plate_counter = 1
    /\ standard_concentrations = DefaultStandards
    /\ start_col = 2
    /\ queue = <<>>
    /\ slot_idx = 0
    /\ leftovers = <<>>
    /\ raised = "none"
    /\ pc = "edit"
    /\ ToolsIdle

\* the grids after 'change <src> to <dst>': reading a source that is no well
\* raises KeyError, which the command catches; an empty source is reported;
\* otherwise set_well on the destination, then clear_well on the source
ChangeResult(lgrid, tgrid, src, dst) ==
    IF ~IsWell(src[1], src[2]) \/ At(lgrid, src[1], src[2]) = NaN
    THEN [layout_grid |-> lgrid, type_grid |-> tgrid]
    ELSE LET moved == set_well(lgrid, tgrid, dst[1], dst[2],
                               At(lgrid, src[1], src[2]), At(tgrid, src[1], src[2]))
             cleared == clear_well(moved.layout_grid, moved.type_grid, src[1], src[2])
         IN [layout_grid |-> cleared.layout_grid, type_grid |-> cleared.type_grid]

\* 'change <src> to <dst>'
Change(src, dst) ==
    /\ pc = "edit"
    /\ layout_grid' = ChangeResult(layout_grid, type_grid, src, dst).layout_grid
    /\ type_grid' = ChangeResult(layout_grid, type_grid, src, dst).type_grid
    /\ UNCHANGED tool_vars
    /\ UNCHANGED <<grouped_samples_with_reps, current_samples, plate_counter,
                   standard_concentrations, start_col, queue, slot_idx,
                   final_assignments, leftovers, files, raised, pc>>

\* 'exclude <coord>'
Exclude(coord) ==
    /\ pc = "edit"
    /\ layout_grid' = clear_well(layout_grid, type_grid, coord[1], coord[2]).layout_grid
    /\ type_grid' = clear_well(layout_grid, type_grid, coord[1], coord[2]).type_grid
    /\ UNCHANGED tool_vars
    /\ UNCHANGED <<grouped_samples_with_reps, current_samples, plate_counter,
                   standard_concentrations, start_col, queue, slot_idx,
                   final_assignments, leftovers, files, raised, pc>>

\* 'set <coord> <name>'
SetName(coord, name) ==
    /\ pc = "edit"
    /\ layout_grid' = set_well(layout_grid, type_grid, coord[1], coord[2],
                               Val(SampleValue(name)), Val("Sample")).layout_grid
    /\ type_grid' = set_well(layout_grid, type_grid, coord[1], coord[2],
                             Val(SampleValue(name)), Val("Sample")).type_grid
    /\ UNCHANGED tool_vars
    /\ UNCHANGED <<grouped_samples_with_reps, current_samples, plate_counter,
                   standard_concentrations, start_col, queue, slot_idx,
                   final_assignments, leftovers, files, raised, pc>>

\* 'done': the loop ends and main() saves the plate again under the same name
EditDone ==
    /\ pc = "edit"
    /\ files' = [files EXCEPT ![plate_counter] = ToCsv(layout_grid, type_grid)]
    /\ pc' = "edited"
    /\ UNCHANGED tool_vars
    /\ UNCHANGED <<grouped_samples_with_reps, current_samples, plate_counter,
                   standard_concentrations, layout_grid, type_grid, start_col,
                   queue, slot_idx, final_assignments, leftovers, raised>>

ChangeCommand == \E src \in EditCoords : \E dst \in EditCoords : Change(src, dst)
ExcludeCommand == \E coord \in EditCoords : Exclude(coord)
SetCommand == \E coord \in EditCoords : \E name \in EditNames : SetName(coord, name)

EditNext == ExcludeCommand \/ SetCommand \/ ChangeCommand \/ EditDone

SpecEdit == EditInit /\ [][EditNext]_vars

----------------------------------------------------------------------------
(* Vocabulary of the properties *)

Range(seq) == {seq[i] : i \in 1..Len(seq)}

\* the (group, member) positions of a queue, and the ids found there
Positions(q) == UNION {{<<i, k>> : k \in 1..Len(q[i].members)} : i \in 1..Len(q)}
MemberIds(q) == {q[p[1]].members[p[2]] : p \in Positions(q)}
CountInQueue(q, x) == Cardinality({p \in Positions(q) : q[p[1]].members[p[2]] = x})

\* the wells of a grid that hold sample id x, and the sample ids a grid holds
WellsHolding(grid, x) == {w \in DOMAIN grid : grid[w] = SampleValue(x)}
SampleIdsIn(grid) == {grid[w][2] : w \in {v \in DOMAIN grid : grid[v][1] = "id"}}

\* the number of sample slots of one row of the current slot sequence
RowCapacity == Len(cols) - start_col + 1

\* position (1-based) of well w in the slot sequence
SlotPosition(w) == CHOOSE k \in 1..total_slots : valid_slots[k] = w

\* a group of the queue that is a split remainder: not a group of the run's input
IsRemainder(g) == g \notin Range(current_samples)

----------------------------------------------------------------------------
(* C1  Conservation: when assign_samples has returned, every sample id of the
   input queue is either assigned to wells (counted once, however many wells
   it fills) or in the leftovers, as often as it is in the input; no id is
   lost, none is duplicated and none appears from nowhere. *)
Conservation ==
    pc = "save" =>
        \A x \in MemberIds(current_samples) \cup MemberIds(leftovers)
                  \cup SampleIdsIn(layout_grid) :
            (IF WellsHolding(layout_grid, x) # {} THEN 1 ELSE 0)
                + CountInQueue(leftovers, x)
            = CountInQueue(current_samples, x)

\* a run that placed some members, split a group and returned leftovers
ConservationWitness ==
    /\ pc = "save"
    /\ SampleIdsIn(layout_grid) # {}
    /\ leftovers # <<>>
    /\ IsRemainder(leftovers[1])

(* C2  Row-containment: the wells of every placed sample id lie in one row and
   are consecutive in the slot sequence, during the run and in the rendered
   grid, also when a row is left partly empty. *)
RowContainment ==
    /\ pc \in {"assign", "save"} =>
          \A x \in {final_assignments[k][1] : k \in 1..Len(final_assignments)} :
              LET ks == {k \in 1..Len(final_assignments) : final_assignments[k][1] = x}
                  ps == {SlotPosition(<<final_assignments[k][2], final_assignments[k][3]>>) : k \in ks}
              IN /\ \A k, m \in ks : final_assignments[k][2] = final_assignments[m][2]
                 /\ \A p, q \in ps : \A n \in p..q : n \in ps
    /\ pc = "save" =>
          \A x \in SampleIdsIn(layout_grid) :
              LET ws == WellsHolding(layout_grid, x)
                  ps == {SlotPosition(w) : w \in ws}
              IN /\ \A v, w \in ws : v[1] = w[1]
                 /\ \A p, q \in ps : \A n \in p..q : n \in ps

\* a row was left with free slots although members were still queued, and a
\* member of several replicates was placed in a later row
RowContainmentWitness ==
    /\ pc = "save"
    /\ \E x \in SampleIdsIn(layout_grid) :
          /\ Cardinality(WellsHolding(layout_grid, x)) >= 3
          /\ \E w \in WellsHolding(layout_grid, x) :
                \E k \in 1..total_slots :
                    /\ k < SlotPosition(w)
                    /\ valid_slots[k][1] # w[1]
                    /\ valid_slots[k] \notin DOMAIN layout_grid

(* C3  Member atomicity: when assign_samples has returned, every member of
   every input group fills exactly replicate_count wells or none. *)
MemberAtomicity ==
    pc = "save" =>
        \A i \in 1..Len(current_samples) :
            \A x \in Range(current_samples[i].members) :
                Cardinality(WellsHolding(layout_grid, x)) \in {0, current_samples[i].reps}

\* a group of several replicates of which one member is placed and one is not
MemberAtomicityWitness ==
    /\ pc = "save"
    /\ \E i \in 1..Len(current_samples) :
          /\ current_samples[i].reps > 1
          /\ \E x, y \in Range(current_samples[i].members) :
                /\ Cardinality(WellsHolding(layout_grid, x)) = current_samples[i].reps
                /\ WellsHolding(layout_grid, y) = {}

(* C4  First-fit, FIFO: every placement step places the first group in queue
   order whose replicate_count is at most the slots left in the current row:
   every group ahead of it does not fit, and the first tuple appended belongs
   to its first member. Of two groups that both fit, the earlier one is
   placed. *)
FirstFitFifo ==
    [][(pc = "assign" /\ Len(final_assignments') > Len(final_assignments)) =>
          \E j \in 1..Len(queue) :
              /\ queue[j].reps <= SlotsInRow(valid_slots, slot_idx)
              /\ \A i \in 1..(j - 1) : queue[i].reps > SlotsInRow(valid_slots, slot_idx)
              /\ queue[j].members # <<>>
              /\ final_assignments'[Len(final_assignments) + 1][1] = queue[j].members[1]
              /\ \A i \in 1..(j - 1) : queue[i] \in Range(queue')
      ]_vars

\* in the middle of a run the group at the head of the queue does not fit
\* what is left of the row while a group behind it does: first-fit passes
\* over the head
FirstFitFifoWitness ==
    /\ pc = "assign"
    /\ final_assignments # <<>>
    /\ slot_idx < total_slots
    /\ queue # <<>>
    /\ BestCandidateIdx(queue, SlotsInRow(valid_slots, slot_idx)) > 0

(* C5 as stated: a split remainder, once at the front of the queue, is on
   every later step of the run examined before every other queued group: a
   step that does not select it leaves it at the front. *)
RemainderAlwaysFirst ==
    [][(/\ pc = "assign" /\ pc' = "assign"
        /\ queue # <<>>
        /\ IsRemainder(queue[1])
        /\ queue[1] \in Range(queue'))
       => queue'[1] = queue[1]
      ]_vars

(* C5  Split reinsertion: a placement step that places only the first n
   members of the selected group puts the suffix of its members from index n
   on, with the same replicate_count, at the front of the queue, ahead of
   every group queued at that moment; the other groups keep their order; a
   group that is placed whole is only removed. A remainder at the front stays
   there until it is selected or until a later split puts a newer remainder
   directly ahead of it. *)
SplitReinsertion ==
    [][(pc = "assign" /\ Len(final_assignments') > Len(final_assignments)) =>
          LET first == final_assignments'[Len(final_assignments) + 1][1]
              j == CHOOSE i \in 1..Len(queue) :
                       queue[i].members # <<>> /\ queue[i].members[1] = first
              g == queue[j]
              n == (Len(final_assignments') - Len(final_assignments)) \div g.reps
              rest == [i \in 1..(Len(queue) - 1) |->
                          IF i < j THEN queue[i] ELSE queue[i + 1]]
              rem == [members |-> [k \in 1..(Len(g.members) - n) |-> g.members[n + k]],
                      reps |-> g.reps]
          IN /\ n >= 1
             /\ queue' = IF n < Len(g.members) THEN <<rem>> \o rest ELSE rest
             /\ (queue # <<>> /\ IsRemainder(queue[1]) /\ j # 1 /\ queue'[1] # queue[1])
                    => /\ n < Len(g.members)
                       /\ queue'[1] = rem
                       /\ queue'[2] = queue[1]
      ]_vars

\* two remainders wait in the queue and the one of the group that was queued
\* later is ahead of the one of the group that was queued first
SplitReinsertionWitness ==
    /\ pc = "assign"
    /\ Len(queue) >= 2
    /\ IsRemainder(queue[1])
    /\ IsRemainder(queue[2])
    /\ queue[1].members[1] > queue[2].members[1]

\* the rows of a saved plate file that hold sample id x
RowsHolding(file, x) ==
    {k \in 1..Len(file) : file[k][3] = "Sample" /\ file[k][4] = SampleValue(x)}

\* the ids of the groups of the initial queue that fit no row
UnplaceableIds ==
    UNION {Range(grouped_samples_with_reps[i].members) :
              i \in {k \in 1..Len(grouped_samples_with_reps) :
                         grouped_samples_with_reps[k].reps > RowCapacity}}

(* C6  Unplaceable groups: a group whose replicate_count exceeds the sample
   slots of a row is written to no well on any plate (neither in the
   assignments, nor in the grid, nor in a saved file), every run it is passed
   to returns it in the leftovers, and no error is raised. *)
UnplaceableReturned ==
    /\ raised = "none"
    /\ \A x \in UnplaceableIds :
          /\ WellsHolding(layout_grid, x) = {}
          /\ \A k \in 1..Len(final_assignments) : final_assignments[k][1] # x
          /\ \A n \in 1..Len(files) : RowsHolding(files[n], x) = {}
    /\ pc = "save" =>
          \A g \in Range(current_samples) :
              g.reps > RowCapacity => g \in Range(leftovers)

\* the run for the second plate has returned: the first plate holds samples
\* of another group, the group that fits no row was passed to both runs
UnplaceableReturnedWitness ==
    /\ pc = "save"
    /\ plate_counter = 2
    /\ \E g \in Range(current_samples) : g.reps > RowCapacity
    /\ \E k \in 1..Len(files[1]) : files[1][k][3] = "Sample"

(* C7 as stated: after a plate pass that placed nothing while groups are left
   over, the overflow loop has stopped with a StarvationError. *)
StarvationDetected ==
    (pc \notin {"assign", "save"} /\ final_assignments = <<>> /\ leftovers # <<>>)
        => (raised = "StarvationError" /\ pc = "done")

\* every group of the initial queue fits a row
AllPlaceable ==
    \A i \in 1..Len(grouped_samples_with_reps) :
        /\ 1 <= grouped_samples_with_reps[i].reps
        /\ grouped_samples_with_reps[i].reps <= RowCapacity

\* every id of the initial queue is on exactly one saved plate, in exactly
\* replicate_count wells
EveryIdOnOnePlate ==
    \A i \in 1..Len(grouped_samples_with_reps) :
        \A x \in Range(grouped_samples_with_reps[i].members) :
            LET plates == {n \in 1..Len(files) : RowsHolding(files[n], x) # {}}
            IN /\ Cardinality(plates) = 1
               /\ \A n \in plates :
                     Cardinality(RowsHolding(files[n], x))
                         = grouped_samples_with_reps[i].reps

\* main() started on a queue of placeable groups; the program keeps running:
\* a step that can be taken is eventually taken
PlaceableInit == Init /\ AllPlaceable
FairSpec == PlaceableInit /\ [][Next]_vars /\ WF_vars(Next)

(* C8  Overflow completion: if every group of the initial queue has
   1 <= replicate_count <= 11, the overflow loop terminates, and when it has
   terminated the leftovers are empty and every sample id of the initial queue
   is on exactly one plate of the sequence, in exactly replicate_count wells. *)
OverflowCompletion ==
    /\ AllPlaceable => <>(pc = "done")
    /\ []((AllPlaceable /\ pc = "done") => (leftovers = <<>> /\ EveryIdOnOnePlate))

\* a run over two plates has terminated with every group placed
OverflowCompletionWitness ==
    /\ pc = "done"
    /\ AllPlaceable
    /\ Len(files) = 2
    /\ leftovers = <<>>
    /\ \E k \in 1..Len(files[2]) : files[2][k][3] = "Sample"

(* C9  Calibration reversal: a plate built from a standards list of length 8
   holds standards[7 - i] (0-based) in column 1 of the row of index i, typed as
   a standard; built from the default list, row A holds 6.4 and row H holds 0
   (concentrations in tenths). *)
CalibrationReversal ==
    (pc = "built" /\ Len(standard_concentrations) = Len(rows)) =>
        /\ \A i \in 0..(Len(rows) - 1) :
              /\ NotNa(layout_grid, rows[i + 1], 1)
              /\ layout_grid[<<rows[i + 1], 1>>]
                     = StdValue(standard_concentrations[(Len(rows) - 1 - i) + 1])
              /\ type_grid[<<rows[i + 1], 1>>] = "Standard"
        /\ standard_concentrations = DefaultStandards =>
              /\ layout_grid[<<"A", 1>>] = StdValue(64)
              /\ layout_grid[<<"H", 1>>] = StdValue(0)

\* a plate was built from a list of eight concentrations that differs from its
\* reversal
CalibrationReversalWitness ==
    /\ pc = "built"
    /\ Len(standard_concentrations) = Len(rows)
    /\ standard_concentrations[1] # standard_concentrations[Len(rows)]
    /\ layout_grid[<<"A", 1>>] = StdValue(standard_concentrations[Len(rows)])

(* C10 as stated: building a plate from a non-empty standards list whose
   length is not the row count fails with a ConfigurationError. *)
WrongLengthRejected ==
    (/\ pc = "built"
     /\ standard_concentrations # <<>>
     /\ Len(standard_concentrations) # Len(rows))
        => raised = "ConfigurationError"

(* C11 as stated: a group with a non-positive replicate_count is rejected when
   the queue is constructed, so the loop of assign_samples never runs on a
   queue that holds a group with replicate_count <= 0. *)
NonPositiveRejected ==
    pc = "assign" => \A i \in 1..Len(queue) : queue[i].reps >= 1

\* the sample ids of a list of assignment tuples
AssignedIds(assignments) == {assignments[k][1] : k \in 1..Len(assignments)}

(* C12  Disjointness: when assign_samples has returned, no sample id of the
   assignments is in a group of the leftovers, and the assigned ids together
   with the leftover ids are exactly the ids of the input queue. *)
PlacementDisjoint ==
    pc = "save" =>
        /\ AssignedIds(final_assignments) \cap MemberIds(leftovers) = {}
        /\ AssignedIds(final_assignments) \cup MemberIds(leftovers)
               = MemberIds(current_samples)

\* a run that placed one group whole and returned another group whole
PlacementDisjointWitness ==
    /\ pc = "save"
    /\ Len(current_samples) = 2
    /\ current_samples[2].members # <<>>
    /\ Range(current_samples[2].members) \subseteq AssignedIds(final_assignments)
    /\ current_samples[1].members # <<>>
    /\ leftovers = <<current_samples[1]>>

(* C13 as stated: a run of assign_samples leaves every well of layout_grid and
   type_grid as it was before the call, that is as the constructor left it. *)
GridUntouchedByScheduler ==
    pc = "save" =>
        /\ layout_grid = NewLayoutGrid(standard_concentrations)
        /\ type_grid = NewTypeGrid(standard_concentrations)

(* C14  Queue copy: no step of a run of assign_samples, from the call to the
   return, changes the caller's input list: it keeps its length, its groups in
   their order, and each group's members and replicate_count. *)
InputQueueUnchanged ==
    [][(pc = "assign" \/ pc' = "assign") => current_samples' = current_samples]_vars

\* a run on two groups has returned: the first was placed whole, the second
\* was split, and the local queue differs from the list that was passed
InputQueueUnchangedWitness ==
    /\ pc = "save"
    /\ Len(current_samples) = 2
    /\ current_samples[1].members # <<>>
    /\ Range(current_samples[1].members) \subseteq AssignedIds(final_assignments)
    /\ Len(leftovers) = 1
    /\ IsRemainder(leftovers[1])
    /\ queue # current_samples

\* the sample wells of row r of the plate, and the ids they hold
SampleWellsInRow(r) == {w \in DOMAIN type_grid : w[1] = r /\ type_grid[w] = "Sample"}
IdsInRow(r) == {layout_grid[w][2] : w \in SampleWellsInRow(r)}

\* the initial queue is n groups of m members with replicate count r
IsUniform(n, m, r) ==
    /\ Len(grouped_samples_with_reps) = n
    /\ \A i \in 1..n :
          /\ Len(grouped_samples_with_reps[i].members) = m
          /\ grouped_samples_with_reps[i].reps = r

(* C15  Scenario: 9 groups of 3 members with replicate_count 2, samples from
   column 2 on (11 slots per row): the first run returns empty leftovers, the
   rows A..E hold 5 members in 10 wells each, row F holds the last 2 members in
   4 wells, the rows G and H hold no sample, and no second plate is started. *)
ScenarioOnePlate ==
    IsUniform(9, 3, 2) =>
        /\ plate_counter = 1
        /\ Len(files) <= 1
        /\ pc = "save" =>
              /\ leftovers = <<>>
              /\ \A i \in 1..5 :
                    /\ Cardinality(IdsInRow(rows[i])) = 5
                    /\ Cardinality(SampleWellsInRow(rows[i])) = 10
              /\ Cardinality(IdsInRow("F")) = 2
              /\ Cardinality(SampleWellsInRow("F")) = 4
              /\ SampleWellsInRow("G") = {}
              /\ SampleWellsInRow("H") = {}
              /\ SampleIdsIn(layout_grid) = MemberIds(grouped_samples_with_reps)

\* the run on the 9 groups has returned and the sixth row is partly filled
ScenarioOnePlateWitness ==
    /\ IsUniform(9, 3, 2)
    /\ pc = "save"
    /\ Cardinality(SampleWellsInRow("F")) = 4
    /\ Cardinality(SampleIdsIn(layout_grid)) = 27


\* the cells of grid g and of grid h are at the same positions and agree in
\* type and in every value
SameCells(g, h) ==
    /\ DOMAIN g = DOMAIN h
    /\ \A p \in DOMAIN g :
          /\ g[p].type = h[p].type
          /\ g[p].type = "CAL" => g[p].conc = h[p].conc
          /\ g[p].type = "EXP" =>
                /\ g[p].exp = h[p].exp /\ g[p].subj = h[p].subj
                /\ g[p].samp = h[p].samp /\ g[p].rep = h[p].rep

\* the (exp, subj) pairs of the EXP cells of grid g that have a non-empty name
NamedSubjects(g, names) ==
    {k \in DOMAIN names :
        /\ names[k] # <<>>
        /\ \E p \in DOMAIN g :
              g[p].type = "EXP" /\ <<g[p].exp, g[p].subj>> = k}

\* C16: after the export and the import of a designer grid the imported grid
\* has the same cells at the same positions, and every (exp, subj) of the
\* grid that has a non-empty name is returned with that name.
RoundTripLossless ==
    (designer.fn = "round_trip" /\ designer.pc = "imported") =>
        /\ SameCells(designer.grid_data, designer.result.grid_data)
        /\ \A k \in NamedSubjects(designer.grid_data,
                                   designer.subject_names_dict) :
              /\ k \in DOMAIN designer.result.subject_names
              /\ designer.result.subject_names[k] =
                    designer.subject_names_dict[k]


\* C17: fill_cells returns one EXP cell for every position of the rectangle
\* spanned by the two corners; in 'vertical' orientation the columns, left to
\* right, take the sample ids next_sample_id, next_sample_id + 1, ... and
\* number their cells 1, 2, ... down the rows, in any other orientation the
\* rows, top to bottom, take the ids and number their cells across the
\* columns; the returned id is next_sample_id plus the number of samples, and
\* the corners given in the other order give the same result.
FillCellsContract ==
    (designer.fn = "fill_cells" /\ designer.pc = "returned") =>
        LET d == designer
            u == d.result.updates
            left == IF d.c1 <= d.c2 THEN d.c1 ELSE d.c2
            right == IF d.c1 <= d.c2 THEN d.c2 ELSE d.c1
            top == IF d.r1 <= d.r2 THEN d.r1 ELSE d.r2
            bottom == IF d.r1 <= d.r2 THEN d.r2 ELSE d.r1
            vertical == d.orientation = "vertical"
            samples == IF vertical THEN right - left + 1 ELSE bottom - top + 1
        IN /\ DOMAIN u = {<<c, r>> : c \in left..right, r \in top..bottom}
           /\ \A c \in left..right : \A r \in top..bottom :
                 /\ u[<<c, r>>].type = "EXP"
                 /\ u[<<c, r>>].exp = d.current_exp
                 /\ u[<<c, r>>].subj = d.current_subj
                 /\ vertical =>
                       /\ u[<<c, r>>].samp = d.next_sample_id + (c - left)
                       /\ u[<<c, r>>].rep = (r - top) + 1
                 /\ ~ vertical =>
                       /\ u[<<c, r>>].samp = d.next_sample_id + (r - top)
                       /\ u[<<c, r>>].rep = (c - left) + 1
           /\ d.result.local_samp_id = d.next_sample_id + samples
           /\ d.result = fill_cells(d.c2, d.r2, d.c1, d.r1, d.current_exp,
                                    d.current_subj, d.next_sample_id,
                                    d.orientation)

\* a vertical fill of several columns and rows whose first corner is the
\* bottom right one
FillCellsContractWitness ==
    /\ designer.fn = "fill_cells"
    /\ designer.pc = "returned"
    /\ designer.c1 > designer.c2
    /\ designer.r1 > designer.r2
    /\ designer.orientation = "vertical"
    /\ designer.result.updates[<<designer.c1, designer.r1>>].rep > 1
    /\ designer.result.updates[<<designer.c1, designer.r1>>].samp >
          designer.next_sample_id

\* the names carried by at least three different subjects that are each
\* measured at both of the first two selected timepoints
SharedNames(df, tps) ==
    {nm \in {df[i].SubjectName : i \in 1..Len(df)} :
        Cardinality({sb \in {df[i].Subject : i \in 1..Len(df)} :
            \A t \in {tps[1], tps[2]} :
                \E i \in 1..Len(df) : /\ df[i].Subject = sb
                                        /\ df[i].SubjectName = nm
                                        /\ df[i].Timepoint = t}) >= 3}

\* C18: when at least three different subjects carry the same name and are
\* measured at each of two selected timepoints, run_statistical_analysis
\* raises no error and its result contains 'p_value'.
DuplicateNamesAnalysed ==
    (/\ analysis.fn = "run_statistical_analysis"
     /\ analysis.pc # "call"
     /\ Len(analysis.config.timepoints) >= 2
     /\ SharedNames(analysis.exp_df, analysis.config.timepoints) # {}) =>
        /\ analysis.raised = "none"
        /\ "p_value" \in analysis.results

\* the number of slots from the cursor to the end of its row
RowRemaining == SlotsInRow(valid_slots, slot_idx)

\* C19: in a step of assign_samples that takes a group g off the queue, with
\* row_remaining slots left in the row, place_count = min(len(g.members),
\* row_remaining // g.reps) members are placed: the first place_count members
\* in the group's order, each in the next g.reps consecutive slots, and the
\* cursor ends place_count * g.reps slots further on; place_count >= 1 when
\* g has a member.
GreedyFillStep ==
    [][(pc = "assign" /\ pc' = "assign" /\ queue' # queue) =>
          \E j \in 1..Len(queue) :
              LET g == queue[j]
                  place_count ==
                      IF Len(g.members) <= RowRemaining \div g.reps
                      THEN Len(g.members) ELSE RowRemaining \div g.reps
                  before == Len(final_assignments)
              IN /\ g.reps <= RowRemaining
                 /\ \A i \in 1..(j - 1) : queue[i].reps > RowRemaining
                 /\ Len(final_assignments') = before + place_count * g.reps
                 /\ SubSeq(final_assignments', 1, before) = final_assignments
                 /\ \A m \in 1..place_count : \A k \in 1..g.reps :
                       final_assignments'[before + (m - 1) * g.reps + k] =
                           <<g.members[m],
                             valid_slots[slot_idx + (m - 1) * g.reps + k][1],
                             valid_slots[slot_idx + (m - 1) * g.reps + k][2]>>
                 /\ slot_idx' = slot_idx + place_count * g.reps
                 /\ g.members # <<>> => place_count >= 1
      ]_vars

\* a group of replicate count above 1 was placed in part: its remainder is
\* in the queue and the placed members fill the slots up to the cursor
GreedyFillStepWitness ==
    /\ pc = "assign"
    /\ final_assignments # <<>>
    /\ Len(final_assignments) = slot_idx
    /\ \E i \in 1..Len(queue) :
          /\ IsRemainder(queue[i])
          /\ queue[i].members # <<>>
          /\ queue[i].reps > 1
          /\ slot_idx >= 2 * queue[i].reps

\* the slots (1-based positions of the slot sequence) that hold an assignment
AssignedSlots(assignments) ==
    LET wells == {<<assignments[n][2], assignments[n][3]>> :
                     n \in 1..Len(assignments)}
    IN {k \in 1..total_slots : valid_slots[k] \in wells}

\* C20: when no queued group has a replicate count within the slots left in
\* the row, the step moves the cursor to the first slot of the next row (or
\* to the end of the slot sequence) and leaves the queue and the assignments
\* as they are; and no slot the cursor has passed is given a sample later:
\* every later assignment is to a slot at or after the cursor, and the grids
\* get a sample only in the wells that were assigned.
RowSkipOnNoFit ==
    [][/\ (/\ pc = "assign"
            /\ slot_idx < total_slots
            /\ queue # <<>>
            /\ \A i \in 1..Len(queue) : queue[i].reps > RowRemaining) =>
              /\ queue' = queue
              /\ final_assignments' = final_assignments
              /\ slot_idx' > slot_idx
              /\ valid_slots[slot_idx'][1] = valid_slots[slot_idx + 1][1]
              /\ \/ slot_idx' = total_slots
                 \/ valid_slots[slot_idx' + 1][1] # valid_slots[slot_idx + 1][1]
       /\ pc = "assign" =>
              /\ \A n \in (Len(final_assignments) + 1)..Len(final_assignments') :
                    \E k \in (slot_idx + 1)..total_slots :
                        valid_slots[k] = <<final_assignments'[n][2],
                                           final_assignments'[n][3]>>
              /\ type_grid' # type_grid =>
                    \A w \in DOMAIN type_grid' :
                        type_grid'[w] = "Sample" =>
                            \E n \in 1..Len(final_assignments) :
                                w = <<final_assignments[n][2],
                                      final_assignments[n][3]>>
      ]_vars

\* the run has returned with an empty slot that lies before a filled one:
\* slots at the end of a row were skipped and the next row was used
RowSkipOnNoFitWitness ==
    /\ pc = "save"
    /\ \E k \in 1..total_slots : \E n \in (k + 1)..total_slots :
          /\ k \notin AssignedSlots(final_assignments)
          /\ n \in AssignedSlots(final_assignments)
          /\ valid_slots[k] \notin DOMAIN type_grid
             \/ type_grid[valid_slots[k]] # "Sample"
          /\ type_grid[valid_slots[n]] = "Sample"

\* C21: assign_samples returns only when the cursor has passed the last slot
\* or the queue is empty; the leftovers it returns are the queue of that
\* moment, in its order, and when they are not empty the cursor has passed
\* every slot of the plate.
StoppingCondition ==
    [][(pc = "assign" /\ pc' # "assign") =>
          /\ slot_idx >= total_slots \/ queue = <<>>
          /\ leftovers' = queue
          /\ leftovers' # <<>> => slot_idx' = total_slots
      ]_vars

\* the run has returned a split remainder: the plate was used to its last
\* slot and part of a group is left
StoppingConditionWitness ==
    /\ pc = "save"
    /\ leftovers # <<>>
    /\ IsRemainder(leftovers[1])
    /\ slot_idx = total_slots
    /\ final_assignments # <<>>

\* the iterations the loop can still make: the slots ahead of the cursor
\* plus the queued groups
IterationsLeft(idx, q) == (total_slots - idx) + Len(q)

\* C22: a run of assign_samples terminates. Every iteration of its loop
\* advances the cursor by at least one slot or takes a group off the queue
\* without putting it back, so the slots ahead of the cursor plus the length
\* of the queue decrease with every iteration and never fall below zero: the
\* iterations are at most the slot count plus the queue length.
RunTerminates ==
    /\ [][(pc = "assign" /\ pc' = "assign") =>
             /\ \/ slot_idx' > slot_idx
                \/ slot_idx' = slot_idx /\ Len(queue') = Len(queue) - 1
             /\ IterationsLeft(slot_idx', queue') < IterationsLeft(slot_idx, queue)
             /\ slot_idx' <= total_slots
         ]_vars
    /\ (pc = "assign") ~> (pc = "save")

\* the run has returned after a row was skipped and a group was split
RunTerminatesWitness ==
    /\ pc = "save"
    /\ plate_counter = 1
    /\ Len(final_assignments) < slot_idx
    /\ final_assignments # <<>>
    /\ leftovers # <<>>

\* position of row label r in rows
RowIndex(r) == CHOOSE i \in 1..Len(rows) : rows[i] = r

\* C23: the slot sequence of assign_samples(start_col) lists the rows A to H
\* in that order and within each row the columns start_col, ..., 12 from left
\* to right; it has no well with a column below start_col and has every well
\* with a column from start_col to 12 exactly once.
CanonicalSlotOrder ==
    /\ \A k \in 1..total_slots :
          /\ valid_slots[k][1] \in Range(rows)
          /\ valid_slots[k][2] >= start_col
          /\ valid_slots[k][2] <= 12
    /\ \A k \in 1..(total_slots - 1) :
          \/ /\ valid_slots[k + 1][1] = valid_slots[k][1]
             /\ valid_slots[k + 1][2] = valid_slots[k][2] + 1
          \/ /\ RowIndex(valid_slots[k + 1][1]) = RowIndex(valid_slots[k][1]) + 1
             /\ valid_slots[k][2] = 12
             /\ valid_slots[k + 1][2] = start_col
    /\ \A r \in Range(rows) : \A c \in start_col..12 :
          Cardinality({k \in 1..total_slots : valid_slots[k] = <<r, c>>}) = 1

\* a run with a start column other than the default has filled the first
\* slot of its sequence and more
CanonicalSlotOrderWitness ==
    /\ pc = "save"
    /\ start_col = 5
    /\ Len(final_assignments) > 8
    /\ final_assignments[1][2] = "A"
    /\ final_assignments[1][3] = 5

\* the wells named by a list of assignments
AssignedWells(assignments) ==
    {<<assignments[n][2], assignments[n][3]>> : n \in 1..Len(assignments)}

\* C24: in a run of assign_samples no well receives more than one
\* assignment and every assigned well is a slot of the slot sequence; the
\* cursor never moves backwards.
OneAssignmentPerWell ==
    /\ [](/\ Cardinality(AssignedWells(final_assignments)) = Len(final_assignments)
          /\ AssignedWells(final_assignments) \subseteq Range(valid_slots))
    /\ [][(pc = "assign" /\ pc' = "assign") => slot_idx' >= slot_idx]_vars

\* the run has returned with every slot of the plate assigned
OneAssignmentPerWellWitness ==
    /\ pc = "save"
    /\ total_slots > 0
    /\ Len(final_assignments) = total_slots
    /\ Len(grouped_samples_with_reps) > 1

\* C25: on a plate built with the eight default standards, during and after
\* an assign_samples run with start_col = 2, the eight wells of column 1
\* hold their standard value with type 'Standard' and every well of type
\* 'Sample' has a column from 2 to 12.
CalibrationKept ==
    (pc \in {"assign", "save"}) =>
        /\ \A i \in 1..Len(rows) :
              /\ NotNa(layout_grid, rows[i], 1)
              /\ layout_grid[<<rows[i], 1>>] =
                    StdValue(DefaultStandards[Len(rows) + 1 - i])
              /\ type_grid[<<rows[i], 1>>] = "Standard"
        /\ \A w \in DOMAIN type_grid :
              type_grid[w] = "Sample" => (w[2] >= 2 /\ w[2] <= 12)

\* the run has returned with a sample next to the standard in every row
CalibrationKeptWitness ==
    /\ pc = "save"
    /\ start_col = 2
    /\ \A i \in 1..Len(rows) :
          /\ NotNa(type_grid, rows[i], 2)
          /\ type_grid[<<rows[i], 2>>] = "Sample"
          /\ type_grid[<<rows[i], 1>>] = "Standard"

\* the members of a queue, group after group
RECURSIVE Flatten(_)
Flatten(q) == IF q = <<>> THEN <<>> ELSE Head(q).members \o Flatten(Tail(q))

\* every element of seq repeated r times
Repeated(seq, r) == [n \in 1..(Len(seq) * r) |-> seq[((n - 1) \div r) + 1]]

\* the sample ids of the plate read in slot order
SamplesInSlotOrder ==
    LET IsSample(w) == w \in DOMAIN type_grid /\ type_grid[w] = "Sample"
        held == SelectSeq(valid_slots, IsSample)
    IN [n \in 1..Len(held) |-> layout_grid[held[n]][2]]

\* the sample ids of a saved file in the order of its rows
SamplesOfFile(file) ==
    LET IsSampleRow(row) == row[3] = "Sample"
        held == SelectSeq(file, IsSampleRow)
    IN [n \in 1..Len(held) |-> held[n][4][2]]

RECURSIVE SamplesOfFiles(_)
SamplesOfFiles(fs) ==
    IF fs = <<>> THEN <<>> ELSE SamplesOfFile(Head(fs)) \o SamplesOfFiles(Tail(fs))

\* the replicate count shared by all groups of the input, if there is one
UniformReps ==
    {r \in 1..11 : /\ grouped_samples_with_reps # <<>>
                    /\ \A i \in 1..Len(grouped_samples_with_reps) :
                          grouped_samples_with_reps[i].reps = r}

\* C26: when every group of the input has the same replicate count r in
\* 1..11, the sample wells of a plate read in slot order are the members of
\* the plate's flattened input in their order, each r times, up to some
\* member, and the flattened leftovers are the members after it; the saved
\* plates one after the other, followed by what is still to be placed, are
\* the flattened input of the run.
UniformOrderPreserved ==
    \A r \in UniformReps :
        /\ pc = "save" =>
              /\ SamplesInSlotOrder \o Repeated(Flatten(leftovers), r)
                    = Repeated(Flatten(current_samples), r)
              /\ SamplesOfFiles(files) \o Repeated(Flatten(current_samples), r)
                    = Repeated(Flatten(grouped_samples_with_reps), r)
        /\ pc = "loop" =>
              SamplesOfFiles(files) \o Repeated(Flatten(current_samples), r)
                  = Repeated(Flatten(grouped_samples_with_reps), r)
        /\ pc = "done" =>
              SamplesOfFiles(files)
                  = Repeated(Flatten(grouped_samples_with_reps), r)

\* two groups of one replicate count above 1 were saved on two plates, the
\* second group split between them
UniformOrderPreservedWitness ==
    /\ pc = "done"
    /\ Len(files) = 2
    /\ UniformReps # {}
    /\ Len(grouped_samples_with_reps) = 2
    /\ grouped_samples_with_reps[1].reps > 1
    /\ SamplesOfFile(files[2]) # <<>>

\* the EXP cells of a designer grid
ExpPositions(grid) == {p \in DOMAIN grid : grid[p].type = "EXP"}

\* C27: the release of a selection that is rejected because its top row is a
\* calibration row changes nothing: grid_data, current_exp, current_subj,
\* next_sample_id, subject_closed and the undo history are as before it.
RejectedSelectionChangesNothing ==
    [][(/\ designer.cur_sel # NoSel
        /\ designer.cur_sel[2] < 2
        /\ designer'.cur_sel = NoSel) =>
          /\ designer'.grid_data = designer.grid_data
          /\ designer'.current_exp = designer.current_exp
          /\ designer'.current_subj = designer.current_subj
          /\ designer'.next_sample_id = designer.next_sample_id
          /\ designer'.subject_closed = designer.subject_closed
          /\ designer'.history = designer.history
      ]_vars

\* C28: undo is the inverse of the recorded actions. Every step of the
\* designer is of one of three kinds: it appends the state it started from
\* to the history (a fill, 'E', an import); or it removes the last entry of
\* the history and makes it the current state, leaving the orientation (an
\* undo); or it leaves the history, the grid and the counters as they are
\* (every other event, and an undo with an empty history). So k recorded
\* actions followed by k undos end in the state before the first of them.
UndoInverse ==
    [][\/ designer'.history = Append(designer.history, SavedState(designer))
       \/ /\ designer.history # <<>>
          /\ designer'.history =
                SubSeq(designer.history, 1, Len(designer.history) - 1)
          /\ SavedState(designer') = designer.history[Len(designer.history)]
          /\ designer'.orientation = designer.orientation
       \/ /\ designer'.history = designer.history
          /\ designer'.grid_data = designer.grid_data
          /\ designer'.current_exp = designer.current_exp
          /\ designer'.current_subj = designer.current_subj
          /\ designer'.next_sample_id = designer.next_sample_id
      ]_vars

\* two subjects were filled in and both fills undone: the history is empty
\* and the grid is the initial one again, while the sidebar still has the
\* two subjects
UndoInverseWitness ==
    /\ designer.history = <<>>
    /\ designer.grid_data = InitGridData
    /\ designer.current_exp = 1
    /\ designer.current_subj = 1
    /\ designer.next_sample_id = 0
    /\ {<<1, 1>>, <<1, 2>>} \subseteq DOMAIN designer.subject_names

\* C29: without an import, every cell of rows 0 and 1 of the designer grid
\* is a CAL cell with its initial concentration and every EXP cell has a row
\* index of at least 2.
CalibrationProtected ==
    /\ \A c \in 0..(COLS - 1) : \A r \in {0, 1} :
          /\ <<c, r>> \in DOMAIN designer.grid_data
          /\ designer.grid_data[<<c, r>>].type = "CAL"
          /\ designer.grid_data[<<c, r>>].conc = CALIBRATION_CONCS[c + 1]
    /\ \A p \in ExpPositions(designer.grid_data) : p[2] >= 2

\* a cell was filled and after it a selection that reaches into the
\* calibration rows was released
CalibrationProtectedWitness ==
    /\ ExpPositions(designer.grid_data) # {}
    /\ Len(designer.history) = 2
    /\ designer.history[2].grid = designer.grid_data
    /\ designer.history[2].samp = designer.next_sample_id
    /\ designer.history[2].exp = designer.current_exp
    /\ designer.cur_sel = NoSel

----------------------------------------------------------------------------
(* C30 as stated: 'change <Src> to <Dst>' never destroys a sample.  For a
   command whose Src is a non-empty well: when Dst is another well of the
   plate, afterwards Dst holds the value and the type that were at Src, Src
   is empty and every other well is as before; when Dst is no well of the
   plate, or is Src itself, some well of the layout still holds the value. *)

\* the wells of either grid other than those of ws hold what they held
OtherWellsKept(ws) ==
    /\ DOMAIN layout_grid' \ ws = DOMAIN layout_grid \ ws
    /\ DOMAIN type_grid' \ ws = DOMAIN type_grid \ ws
    /\ \A w \in DOMAIN layout_grid \ ws : layout_grid'[w] = layout_grid[w]
    /\ \A w \in DOMAIN type_grid \ ws : type_grid'[w] = type_grid[w]

\* what the command is to have done with the value of the non-empty well src
Moved(src, dst) ==
    IF IsWell(dst[1], dst[2]) /\ dst # src
    THEN /\ At(layout_grid', dst[1], dst[2]) = At(layout_grid, src[1], src[2])
         /\ At(type_grid', dst[1], dst[2]) = At(type_grid, src[1], src[2])
         /\ At(layout_grid', src[1], src[2]) = NaN
         /\ At(type_grid', src[1], src[2]) = NaN
         /\ OtherWellsKept({src, dst})
    ELSE \E w \in DOMAIN layout_grid' : layout_grid'[w] = layout_grid[src]

ChangeNeverDestroys ==
    [][\A src \in EditCoords : \A dst \in EditCoords :
          (/\ Change(src, dst)
           /\ IsWell(src[1], src[2])
           /\ At(layout_grid, src[1], src[2]) # NaN) => Moved(src, dst)]_vars

\* the part of C30 that holds: a move between two different wells of the plate
MoveBetweenWells ==
    [][\A src \in EditCoords : \A dst \in EditCoords :
          (/\ Change(src, dst)
           /\ IsWell(src[1], src[2])
           /\ At(layout_grid, src[1], src[2]) # NaN
           /\ IsWell(dst[1], dst[2])
           /\ dst # src) => Moved(src, dst)]_vars

\* the part of C30 that holds: set_well on coordinates outside the plate
\* returns False and leaves both grids as they are
SetWellOutsideRejected ==
    \A coord \in EditCoords : \A name \in EditNames :
        ~IsWell(coord[1], coord[2]) =>
            LET res == set_well(layout_grid, type_grid, coord[1], coord[2],
                                Val(SampleValue(name)), Val("Sample"))
            IN /\ res.returned = FALSE
               /\ res.layout_grid = layout_grid
               /\ res.type_grid = type_grid
====
